---- MODULE Spec2Model ----
(***************************************************************************)
(* Short-Weierstrass Jacobian point arithmetic of snarkVM                  *)
(* (curves/src/templates/short_weierstrass_jacobian/projective.rs):        *)
(* projective equality, the group law (add_assign, add_assign_mixed,       *)
(* double_in_place, neg, sub_assign), batch normalization and the          *)
(* GLV + wNAF scalar multiplication, over small concrete curves.           *)
(***************************************************************************)
EXTENDS Integers, Sequences, FiniteSets, TLC

VARIABLES
    curve,      \* the Parameters instance P: base field, a, b, scalar field, GLV data
    op,         \* the operation that produced the current state
    self,       \* the receiver (&mut self / the returned value) after the operation
    pre,        \* the receiver before the operation
    other,      \* the projective operand of the operation
    otherAff,   \* the affine operand of the operation
    eqres,      \* the boolean returned by eq
    v,          \* the slice handed to batch_normalization, after the call
    vpre,       \* the same slice before the call
    panicked,   \* TRUE once an unwrap of a failed inversion has panicked
    inversions, \* number of field inversions performed by the last call
    k,          \* the scalar of the last scalar multiplication
    dec,        \* the decomposition of k used by the last scalar multiplication
    inverted,   \* the field element handed to inverse() by the last batch_normalization
    bytes,      \* the byte stream written by write_le / handed to read_le
    readres,    \* the IoResult returned by read_le
    circuit,    \* the constraint system: counts of variables and constraints, satisfaction
    gadget,     \* operands, witnesses and output of the last field (in)equality gadget
    string,     \* the string handed to Member::parse
    member,     \* the ParserResult of Member::parse and the Display output of the member
    mulrun,     \* the tables, digit sequences and accumulator steps of the last mul
    recoded,    \* the input and the digit sequences of the last wNAF recoding
    par,        \* the slice and the workers of the parallel pass of batch_normalization
    callers,    \* msm_cuda: each calling thread's position, request size and result
    queue,      \* CUDA_DISPATCH: the requests in the bounded channel, oldest first
    worker,     \* cuda_thread: its position, the request in hand, whether it holds the receiver
    responses,  \* the response channel of each caller's request
    history,    \* the order in which requests were enqueued, taken and answered
    noop        \* NoopProgram::execute: the local data, the position and the outcome

serVars == <<bytes, readres>>
circuitVars == <<circuit, gadget>>
memberVars == <<string, member>>
cudaVars == <<callers, queue, worker, responses, history>>

vars == <<curve, op, self, pre, other, otherAff, eqres, v, vpre, panicked,
          inversions, k, dec, inverted, serVars, circuitVars, memberVars, mulrun,
          recoded, par, cudaVars, noop>>

-----------------------------------------------------------------------------
(* Bounds of the model.                                                    *)

\* Input points are taken in the representatives Z = 1 .. MaxZ (and Z = 0).
MaxZ == 2
\* Longest slice handed to batch_normalization.
MaxLen == 3
\* Raw (not necessarily on-curve) triples have coordinates in 0 .. MaxCoord.
MaxCoord == 2
\* Batch normalization and scalar multiplication take their points among
\* those with affine x <= MaxInputX.
MaxInputX == 1
\* Batch normalization takes its points in the representatives Z = 1 .. MaxBatchZ.
MaxBatchZ == 3
\* The parallel final pass runs on slices of at most MaxParLen points, taken
\* in the representatives Z = 1 .. MaxParZ.
MaxParLen == 2
MaxParZ == 3
\* The dispatch protocol is run with NumCallers threads calling msm_cuda once
\* each, and with the shared queue scaled down from bounded(16) to QueueCap
\* slots so that callers meet a full queue.
NumCallers == 3
QueueCap == 2
\* The local data of NoopProgram::execute holds at most MaxRecords old and at
\* most MaxRecords new records.
MaxRecords == 2

-----------------------------------------------------------------------------
(* Curve parameter sets (P: Parameters).  p is the base field modulus, a   *)
(* and b the Weierstrass coefficients, r the scalar field modulus, lambda  *)
(* the eigenvalue of the GLV endomorphism on the order-r subgroup, beta    *)
(* the base field constant the endomorphism multiplies with, and j1728     *)
(* tells the two endomorphism shapes apart; reprbits is the width of the   *)
(* scalar field's big-integer representation.                              *)

\* y^2 = x^3 + 1 over F_7: 12 = 4 * 3 points, a = 0, three points with y = 0.
CurveA0 ==
    [p |-> 7, a |-> 0, b |-> 1, r |-> 3, lambda |-> 1, beta |-> 2, j1728 |-> FALSE,
     reprbits |-> 16]

\* y^2 = x^3 + 4 over F_3109: 3027 = 3 * 1009 points, a = 0, cofactor 3.
CurveGlv0 ==
    [p |-> 3109, a |-> 0, b |-> 4, r |-> 1009, lambda |-> 634, beta |-> 1085,
     j1728 |-> FALSE, reprbits |-> 16]

\* y^2 = x^3 + 2x over F_13: 10 = 2 * 5 points, a # 0, cofactor 2.
CurveGlv1 ==
    [p |-> 13, a |-> 2, b |-> 0, r |-> 5, lambda |-> 2, beta |-> 5, j1728 |-> TRUE,
     reprbits |-> 16]

GroupCurves == {CurveA0, CurveGlv1}
MulCurves == {CurveGlv0, CurveGlv1}

Modulus == curve.p
WEIERSTRASS_A == curve.a
WEIERSTRASS_B == curve.b
ScalarModulus == curve.r

-----------------------------------------------------------------------------
(* P::BaseField: arithmetic modulo the base field prime.                   *)

FAdd(x, y) == (x + y) % Modulus
FSub(x, y) == (x + Modulus - y) % Modulus
FMul(x, y) == (x * y) % Modulus
FNeg(x) == (Modulus - x) % Modulus
FSquare(x) == (x * x) % Modulus
FDouble(x) == (x + x) % Modulus

RECURSIVE FPow(_, _)
FPow(x, e) ==
    IF e = 0 THEN 1
    ELSE IF e % 2 = 1 THEN FMul(x, FPow(x, e - 1))
    ELSE FSquare(FPow(x, e \div 2))

\* Option<BaseField>: None, Some(x) and unwrap.
None == << >>
Some(x) == <<x>>
unwrap(o) == o[1]

\* Field::inverse: None for the additive identity, Some(x^-1) otherwise.
FInverse(x) == IF x = 0 THEN None ELSE Some(FPow(x, Modulus - 2))

\* Field::sum_of_products([a0, a1], [b0, b1]) = a0*b0 + a1*b1.
sum_of_products(a0, a1, b0, b1) == FAdd(FMul(a0, b0), FMul(a1, b1))

\* P::mul_by_a: multiplication by the Weierstrass coefficient a.
mul_by_a(x) == FMul(WEIERSTRASS_A, x)

-----------------------------------------------------------------------------
(* Projective<P>: the struct, zero, is_zero, is_normalized.                *)

new(x, y, z) == [x |-> x, y |-> y, z |-> z]

zero == new(0, 1, 0)

is_zero(g) == g.z = 0

\* Faulty variant: only Z = 1 counts as normalized.
is_normalized_only_one(g) == g.z = 1

is_normalized(g) == is_zero(g) \/ g.z = 1

-----------------------------------------------------------------------------
(* PartialEq for Projective.                                               *)

\* Faulty variant: the Y coordinates are not compared.
eq_x_only(g, h) ==
    IF is_zero(g) THEN is_zero(h)
    ELSE IF is_zero(h) THEN FALSE
    ELSE FMul(g.x, FSquare(h.z)) = FMul(h.x, FSquare(g.z))

\* Faulty variant: X is scaled by Z instead of Z^2.
eq_unsquared(g, h) ==
    IF is_zero(g) THEN is_zero(h)
    ELSE IF is_zero(h) THEN FALSE
    ELSE ~(FMul(g.x, h.z) # FMul(h.x, g.z)
           \/ FMul(g.y, FMul(FSquare(h.z), h.z)) # FMul(h.y, FMul(FSquare(g.z), g.z)))

eq(g, h) ==
    IF is_zero(g) THEN is_zero(h)
    ELSE IF is_zero(h) THEN FALSE
    ELSE LET z1 == FSquare(g.z)
             z2 == FSquare(h.z)
         IN ~(FMul(g.x, z2) # FMul(h.x, z1)
              \/ FMul(g.y, FMul(z2, h.z)) # FMul(h.y, FMul(z1, g.z)))

-----------------------------------------------------------------------------
(* double_in_place: the a = 0 formula and dbl-2009-l.                      *)

\* Faulty variant: Y3 = E*(D-X3)-4*C in the a = 0 formula (one doubling of C
\* lost), and Y3 = M*(S-T)-4*YYYY in dbl-2009-l.
double_in_place_4c(g) ==
    IF is_zero(g) THEN g
    ELSE IF WEIERSTRASS_A = 0 THEN
        LET a0 == FSquare(g.x)
            b == FSquare(g.y)
            c0 == FSquare(b)
            d == FDouble(FSub(FSub(FSquare(FAdd(g.x, b)), a0), c0))
            e == FAdd(a0, FDouble(a0))
            x3 == FSub(FSquare(e), FDouble(d))
        IN new(x3, FSub(FMul(FSub(d, x3), e), FDouble(FDouble(c0))),
               FDouble(FMul(g.z, g.y)))
    ELSE
        LET xx == FSquare(g.x)
            yy == FSquare(g.y)
            yyyy == FSquare(yy)
            zz == FSquare(g.z)
            s == FDouble(FSub(FSub(FSquare(FAdd(g.x, yy)), xx), yyyy))
            m == FAdd(FAdd(FDouble(xx), xx), FMul(WEIERSTRASS_A, FSquare(zz)))
            t == FSub(FSquare(m), FDouble(s))
        IN new(t, FSub(FMul(m, FSub(s, t)), FDouble(FDouble(yyyy))),
               FSub(FSub(FSquare(FAdd(g.y, g.z)), yy), zz))

double_in_place(g) ==
    IF is_zero(g) THEN g
    ELSE IF WEIERSTRASS_A = 0 THEN
        LET a0 == FSquare(g.x)
            b == FSquare(g.y)
            c0 == FSquare(b)
            d == FDouble(FSub(FSub(FSquare(FAdd(g.x, b)), a0), c0))
            a1 == FDouble(a0)
            e == FAdd(a0, a1)
            f == FSquare(e)
            z3 == FDouble(FMul(g.z, g.y))
            x3 == FSub(f, FDouble(d))
            c3 == FDouble(FDouble(FDouble(c0)))
            y3 == FSub(FMul(FSub(d, x3), e), c3)
        IN new(x3, y3, z3)
    ELSE
        LET xx == FSquare(g.x)
            yy == FSquare(g.y)
            yyyy == FSquare(yy)
            zz == FSquare(g.z)
            s == FDouble(FSub(FSub(FSquare(FAdd(g.x, yy)), xx), yyyy))
            m == FAdd(FAdd(FDouble(xx), xx), mul_by_a(FSquare(zz)))
            t == FSub(FSquare(m), FDouble(s))
            y8 == FDouble(FDouble(FDouble(yyyy)))
            y3 == FSub(FMul(m, FSub(s, t)), y8)
            z3 == FSub(FSub(FSquare(FAdd(g.y, g.z)), yy), zz)
        IN new(t, y3, z3)

\* double: the copying variant.
double(g) == double_in_place(g)

-----------------------------------------------------------------------------
(* Affine<P> (external to the module under study): the two-coordinate      *)
(* point with its infinity flag, and the conversions the group law uses.   *)

AffineNew(x, y, infinity) == [x |-> x, y |-> y, infinity |-> infinity]

AffineZero == AffineNew(0, 1, TRUE)

\* From<Projective<P>> for Affine<P>: (X/Z^2, Y/Z^3), or zero.
AffineFrom(g) ==
    IF is_zero(g) THEN AffineZero
    ELSE IF g.z = 1 THEN AffineNew(g.x, g.y, FALSE)
    ELSE LET zinv == unwrap(FInverse(g.z))
             zinv2 == FSquare(zinv)
         IN AffineNew(FMul(g.x, zinv2), FMul(g.y, FMul(zinv2, zinv)), FALSE)

\* Neg for Affine<P>.
AffineNeg(q) == IF q.infinity THEN q ELSE AffineNew(q.x, FNeg(q.y), FALSE)

\* From<Affine<P>> for Projective<P>.
FromAffine(q) == IF q.infinity THEN zero ELSE new(q.x, q.y, 1)

-----------------------------------------------------------------------------
(* add_assign_mixed (madd-2007-bl), neg, add_assign (add-2007-bl),         *)
(* sub_assign.                                                             *)

\* The madd-2007-bl formula proper, with I = m * HH (the code has m = 4).
madd_2007_bl(g, q, m) ==
    LET z1z1 == FSquare(g.z)
        u2 == FMul(q.x, z1z1)
        s2 == FMul(FMul(q.y, g.z), z1z1)
        h == FSub(u2, g.x)
        hh == FSquare(h)
        i == FMul(m, hh)
        j == FMul(h, i)
        r == FDouble(FSub(s2, g.y))
        vv == FMul(g.x, i)
        x3 == FSub(FSub(FSquare(r), j), FDouble(vv))
        y3 == FAdd(FMul(r, FSub(vv, x3)), FMul(FNeg(FDouble(g.y)), j))
        z3 == FSub(FSub(FSquare(FAdd(g.z, h)), z1z1), hh)
    IN new(x3, y3, z3)

\* Faulty variant: I = 2*HH (one doubling of I lost).
add_assign_mixed_i2(g, q) ==
    IF q.infinity THEN g
    ELSE IF is_zero(g) THEN new(q.x, q.y, 1)
    ELSE IF g.x = FMul(q.x, FSquare(g.z))
            /\ g.y = FMul(FMul(q.y, g.z), FSquare(g.z)) THEN double_in_place(g)
    ELSE madd_2007_bl(g, q, 2)

\* Faulty variant: a zero receiver takes x and y of the operand but keeps Z = 0.
add_assign_mixed_keeps_z(g, q) ==
    IF q.infinity THEN g
    ELSE IF is_zero(g) THEN new(q.x, q.y, g.z)
    ELSE IF g.x = FMul(q.x, FSquare(g.z))
            /\ g.y = FMul(FMul(q.y, g.z), FSquare(g.z)) THEN double_in_place(g)
    ELSE madd_2007_bl(g, q, 4)

add_assign_mixed(g, q) ==
    IF q.infinity THEN g
    ELSE IF is_zero(g) THEN new(q.x, q.y, 1)
    ELSE
        LET z1z1 == FSquare(g.z)
            u2 == FMul(q.x, z1z1)
            s2 == FMul(FMul(q.y, g.z), z1z1)
        IN IF g.x = u2 /\ g.y = s2 THEN double_in_place(g)
           ELSE
               LET h == FSub(u2, g.x)
                   hh == FSquare(h)
                   i == FDouble(FDouble(hh))
                   j == FMul(h, i)
                   r == FDouble(FSub(s2, g.y))
                   vv == FMul(g.x, i)
                   x3 == FSub(FSub(FSquare(r), j), FDouble(vv))
                   y3 == sum_of_products(r, FNeg(FDouble(g.y)), FSub(vv, x3), j)
                   z3 == FSub(FSub(FSquare(FAdd(g.z, h)), z1z1), hh)
               IN new(x3, y3, z3)

\* add_mixed: the copying variant.
add_mixed(g, q) == add_assign_mixed(g, q)

\* Faulty variant: negates X instead of Y.
neg_x(g) == IF ~is_zero(g) THEN new(FNeg(g.x), g.y, g.z) ELSE g

neg(g) == IF ~is_zero(g) THEN new(g.x, FNeg(g.y), g.z) ELSE g

\* The add-2007-bl formula proper; sy is the S term used in Y3 (the code has S1).
add_2007_bl(g, o, second) ==
    LET z1z1 == FSquare(g.z)
        z2z2 == FSquare(o.z)
        u1 == FMul(g.x, z2z2)
        u2 == FMul(o.x, z1z1)
        s1 == FMul(FMul(g.y, o.z), z2z2)
        s2 == FMul(FMul(o.y, g.z), z1z1)
        sy == IF second THEN s2 ELSE s1
        h == FSub(u2, u1)
        i == FSquare(FDouble(h))
        j == FMul(h, i)
        r == FDouble(FSub(s2, s1))
        vv == FMul(u1, i)
        x3 == FSub(FSub(FSquare(r), j), FDouble(vv))
        y3 == FAdd(FMul(r, FSub(vv, x3)), FMul(FNeg(FDouble(sy)), j))
        z3 == FMul(FSub(FSub(FSquare(FAdd(g.z, o.z)), z1z1), z2z2), h)
    IN new(x3, y3, z3)

\* Faulty variant: the doubling case U1 == U2 && S1 == S2 is not detected.
add_assign_no_double(g, o) ==
    IF is_zero(g) THEN o
    ELSE IF is_zero(o) THEN g
    ELSE add_2007_bl(g, o, FALSE)

\* Faulty variant: Y3 = r*(V - X3) - 2*S2*J.
add_assign_s2(g, o) ==
    IF is_zero(g) THEN o
    ELSE IF is_zero(o) THEN g
    ELSE IF FMul(g.x, FSquare(o.z)) = FMul(o.x, FSquare(g.z))
            /\ FMul(FMul(g.y, o.z), FSquare(o.z)) = FMul(FMul(o.y, g.z), FSquare(g.z))
         THEN double_in_place(g)
    ELSE add_2007_bl(g, o, TRUE)

add_assign(g, o) ==
    IF is_zero(g) THEN o
    ELSE IF is_zero(o) THEN g
    ELSE
        LET z1z1 == FSquare(g.z)
            z2z2 == FSquare(o.z)
            u1 == FMul(g.x, z2z2)
            u2 == FMul(o.x, z1z1)
            s1 == FMul(FMul(g.y, o.z), z2z2)
            s2 == FMul(FMul(o.y, g.z), z1z1)
        IN IF u1 = u2 /\ s1 = s2 THEN double_in_place(g)
           ELSE
               LET h == FSub(u2, u1)
                   i == FSquare(FDouble(h))
                   j == FMul(h, i)
                   r == FDouble(FSub(s2, s1))
                   vv == FMul(u1, i)
                   x3 == FSub(FSub(FSquare(r), j), FDouble(vv))
                   y3 == sum_of_products(r, FNeg(FDouble(s1)), FSub(vv, x3), j)
                   z3 == FMul(FSub(FSub(FSquare(FAdd(g.z, o.z)), z1z1), z2z2), h)
               IN new(x3, y3, z3)

sub_assign(g, o) == add_assign(g, neg(o))

-----------------------------------------------------------------------------
(* Inputs: the points of the curve, as affine pairs and as Jacobian        *)
(* triples in several representatives.                                     *)

\* The affine points (x, y) of the curve with x <= maxx.
OnCurve(maxx) ==
    {q \in [x : 0 .. maxx, y : 0 .. Modulus - 1] :
        FSquare(q.y) = FAdd(FAdd(FMul(q.x, FSquare(q.x)), FMul(WEIERSTRASS_A, q.x)),
                            WEIERSTRASS_B)}

\* The representative (x*c^2, y*c^3, c) of the affine point q.
Rep(q, c) == new(FMul(q.x, FSquare(c)), FMul(q.y, FMul(c, FSquare(c))), c)

\* Representatives of the identity: the canonical (0, 1, 0) and (t^2, t^3, 0).
ZeroReps == {zero} \cup {new(FSquare(t), FMul(t, FSquare(t)), 0) : t \in 1 .. MaxZ}

Points(maxx) == ZeroReps \cup {Rep(q, c) : q \in OnCurve(maxx), c \in 1 .. MaxZ}

AffinePoints(maxx) ==
    {AffineZero} \cup {AffineNew(q.x, q.y, FALSE) : q \in OnCurve(maxx)}

InputPoints == Points(Modulus - 1)
InputAffine == AffinePoints(Modulus - 1)

-----------------------------------------------------------------------------
(* The group-law machine: a receiver to which the in-place operations are  *)
(* applied one after the other, each with a freshly chosen operand.        *)

Idle ==
    /\ eqres = FALSE
    /\ v = << >>
    /\ vpre = << >>
    /\ panicked = FALSE
    /\ inversions = 0
    /\ k = 0
    /\ dec = << >>
    /\ inverted = << >>
    /\ bytes = << >>
    /\ readres = << >>
    /\ circuit = << >>
    /\ gadget = << >>
    /\ string = << >>
    /\ member = << >>
    /\ mulrun = << >>
    /\ recoded = << >>
    /\ par = << >>
    /\ callers = << >>
    /\ queue = << >>
    /\ worker = << >>
    /\ responses = << >>
    /\ history = << >>
    /\ noop = << >>

InitGroup ==
    /\ curve \in GroupCurves
    /\ op = "new"
    /\ self = zero
    /\ pre = zero
    /\ other = zero
    /\ otherAff = AffineZero
    /\ Idle

AddAssign ==
    \E o \in InputPoints :
        /\ op' = "add_assign"
        /\ pre' = self
        /\ other' = o
        /\ otherAff' = AffineZero
        /\ self' = add_assign(self, o)
        /\ UNCHANGED <<curve, eqres, v, vpre, panicked, inversions, k, dec, inverted,
                     serVars, circuitVars, memberVars, mulrun,
                     recoded, par, cudaVars, noop>>

SubAssign ==
    \E o \in InputPoints :
        /\ op' = "sub_assign"
        /\ pre' = self
        /\ other' = o
        /\ otherAff' = AffineZero
        /\ self' = sub_assign(self, o)
        /\ UNCHANGED <<curve, eqres, v, vpre, panicked, inversions, k, dec, inverted,
                     serVars, circuitVars, memberVars, mulrun,
                     recoded, par, cudaVars, noop>>

AddAssignMixed ==
    \E q \in InputAffine :
        /\ op' = "add_assign_mixed"
        /\ pre' = self
        /\ other' = zero
        /\ otherAff' = q
        /\ self' = add_assign_mixed(self, q)
        /\ UNCHANGED <<curve, eqres, v, vpre, panicked, inversions, k, dec, inverted,
                     serVars, circuitVars, memberVars, mulrun,
                     recoded, par, cudaVars, noop>>

DoubleInPlace ==
    /\ op' = "double_in_place"
    /\ pre' = self
    /\ other' = zero
    /\ otherAff' = AffineZero
    /\ self' = double_in_place(self)
    /\ UNCHANGED <<curve, eqres, v, vpre, panicked, inversions, k, dec, inverted,
                     serVars, circuitVars, memberVars, mulrun,
                     recoded, par, cudaVars, noop>>

Neg ==
    /\ op' = "neg"
    /\ pre' = self
    /\ other' = zero
    /\ otherAff' = AffineZero
    /\ self' = neg(self)
    /\ UNCHANGED <<curve, eqres, v, vpre, panicked, inversions, k, dec, inverted,
                     serVars, circuitVars, memberVars, mulrun,
                     recoded, par, cudaVars, noop>>

NextGroup == AddAssign \/ SubAssign \/ AddAssignMixed \/ DoubleInPlace \/ Neg

SpecGroup == InitGroup /\ [][NextGroup]_vars

\* The triple is the identity or satisfies Y^2 = X^3 + a*X*Z^4 + b*Z^6.
IsOnCurve(g) ==
    LET z2 == FSquare(g.z)
        z4 == FSquare(z2)
    IN is_zero(g) \/ FSquare(g.y) = FAdd(FAdd(FMul(g.x, FSquare(g.x)),
                                FMul(FMul(WEIERSTRASS_A, g.x), z4)),
                           FMul(WEIERSTRASS_B, FMul(z4, z2)))

-----------------------------------------------------------------------------
(* Properties of the group law, checked under SpecGroup.                   *)

\* C2: addition is associative: with P the receiver before add_assign, Q the
\* operand and P + Q the receiver after it, (P + Q) + R and P + (Q + R) are
\* equal under the projective equality for every curve point R.
C2_Associativity ==
    op = "add_assign" =>
        \A R \in InputPoints :
            eq(add_assign(self, R), add_assign(pre, add_assign(other, R)))

\* C2 witness: P and Q are different group elements, neither is the identity
\* nor is their sum, and some R is the inverse of Q, so that the intermediate
\* sum Q + R is the identity and (P + Q) + R comes back to P.
C2_Witness ==
    /\ op = "add_assign"
    /\ ~is_zero(pre) /\ ~is_zero(other) /\ ~eq(pre, other) /\ ~is_zero(self)
    /\ \E R \in InputPoints :
          /\ ~is_zero(R) /\ is_zero(add_assign(other, R))
          /\ eq(add_assign(self, R), pre)

\* C3: addition is commutative: P + Q (the receiver after add_assign) equals
\* Q + P under the projective equality.
C3_Commutativity == op = "add_assign" => eq(self, add_assign(other, pre))

\* C3 witness: two different group elements in different representatives,
\* added by the general formula.
C3_Witness ==
    /\ op = "add_assign"
    /\ ~is_zero(pre) /\ ~is_zero(other) /\ ~is_zero(self)
    /\ ~eq(pre, other) /\ pre.z # other.z

\* C4 as stated: for general and for mixed addition, adding a Z = 0 operand
\* (the affine zero) leaves the three coordinates of the receiver unchanged,
\* whatever the receiver; a Z = 0 receiver becomes a copy of the operand
\* ((x, y, 1) of the affine operand); identity + identity is an identity.
C4_AsStated ==
    /\ (op = "add_assign" /\ is_zero(other)) => self = pre
    /\ (op = "add_assign" /\ is_zero(pre)) => self = other
    /\ (op = "add_assign" /\ is_zero(pre) /\ is_zero(other)) => is_zero(self)
    /\ (op = "add_assign_mixed" /\ otherAff.infinity) => self = pre
    /\ (op = "add_assign_mixed" /\ is_zero(pre) /\ ~otherAff.infinity) =>
           self = new(otherAff.x, otherAff.y, 1)
    /\ (op = "add_assign_mixed" /\ is_zero(pre) /\ otherAff.infinity) => is_zero(self)

\* C4, amended: the identity is neutral.  General addition: adding a Z = 0
\* operand to a receiver with Z # 0 leaves the receiver's three coordinates
\* as they were; a Z = 0 receiver becomes a copy of the operand, also when
\* the operand has Z = 0 itself, so identity + identity is an identity whose
\* coordinates are the operand's.  Mixed addition: the affine zero leaves
\* every receiver untouched; a Z = 0 receiver becomes (x, y, 1) of a finite
\* affine operand.
C4_IdentityNeutral ==
    /\ (op = "add_assign" /\ is_zero(other) /\ ~is_zero(pre)) => self = pre
    /\ (op = "add_assign" /\ is_zero(pre)) => self = other
    /\ (op = "add_assign" /\ is_zero(pre) /\ is_zero(other)) => is_zero(self)
    /\ (op = "add_assign_mixed" /\ otherAff.infinity) => self = pre
    /\ (op = "add_assign_mixed" /\ is_zero(pre) /\ ~otherAff.infinity) =>
           self = new(otherAff.x, otherAff.y, 1)
    /\ (op = "add_assign_mixed" /\ is_zero(pre) /\ otherAff.infinity) => is_zero(self)

\* C4 witness: a mixed addition of a finite affine point into a receiver that
\* is a non-canonical representative of the identity.
C4_Witness ==
    /\ op = "add_assign_mixed"
    /\ is_zero(pre) /\ pre # zero
    /\ ~otherAff.infinity
    /\ self.z = 1

\* C5: P + (-P) is the identity: for add_assign with the operand equal to the
\* negation of the receiver, for sub_assign with the operand equal to the
\* receiver, and for add_assign_mixed with the affine negation of the
\* receiver; neg maps (X, Y, Z) to (X, -Y, Z) and a Z = 0 point to itself.
C5_Inverse ==
    /\ (op = "add_assign" /\ eq(other, neg(pre))) => is_zero(self)
    /\ (op = "sub_assign" /\ eq(other, pre)) => is_zero(self)
    /\ op = "sub_assign" => self = add_assign(pre, neg(other))
    /\ (op = "add_assign_mixed" /\ otherAff = AffineNeg(AffineFrom(pre))) =>
           is_zero(self)
    /\ (op = "neg" /\ ~is_zero(pre)) => self = new(pre.x, FNeg(pre.y), pre.z)
    /\ (op = "neg" /\ is_zero(pre)) => self = pre

\* C5 witness: a point with Y = 0 added to its own negation, which is the
\* point itself, so that the doubling branch produces the identity.
C5_Witness ==
    /\ op = "add_assign"
    /\ ~is_zero(pre) /\ pre.y = 0
    /\ other = neg(pre) /\ other = pre
    /\ is_zero(self)

\* C6: doubling is consistent with addition: when the operand of add_assign
\* is any representative of the receiver's group element, the result equals
\* double(receiver), and for a receiver that is not the identity it is the
\* very triple double_in_place produces; the doubled point is the group
\* double (2P - P = P by the general formula); doubling a Z = 0 point
\* changes nothing.
C6_DoublingConsistent ==
    /\ (op = "add_assign" /\ eq(pre, other)) =>
           /\ eq(self, double(pre))
           /\ ~is_zero(pre) => self = double_in_place(pre)
    /\ op = "double_in_place" =>
           /\ self = double_in_place(pre)
           /\ eq(add_assign(self, neg(pre)), pre)
           /\ is_zero(pre) => self = pre

\* C6 witness: add_assign of a different representative of the receiver's
\* own group element, on a point whose double is not the identity.
C6_Witness ==
    /\ op = "add_assign"
    /\ ~is_zero(pre) /\ eq(pre, other) /\ pre # other
    /\ ~is_zero(self)

\* C7: mixed and general addition agree: the receiver after
\* add_assign_mixed(P, Q) equals P + Projective::from(Q).
C7_MixedAgrees ==
    op = "add_assign_mixed" => eq(self, add_assign(pre, FromAffine(otherAff)))

\* C7 witness: the madd-2007-bl formula proper: a receiver with Z other than
\* 0 and 1, a finite affine operand that is neither the receiver nor its
\* negation.
C7_Witness ==
    /\ op = "add_assign_mixed"
    /\ pre.z \notin {0, 1} /\ ~otherAff.infinity
    /\ ~eq(pre, FromAffine(otherAff)) /\ ~is_zero(self)

-----------------------------------------------------------------------------
(* The equality machine: a receiver built from raw coordinates, compared   *)
(* with raw triples and with rescalings of itself.                         *)

\* Triples of field elements, on the curve or not.
RawTriples == [x : 0 .. MaxCoord, y : 0 .. MaxCoord, z : 0 .. MaxCoord]

\* (c^2 * X, c^3 * Y, c * Z)
Scaled(g, c) == new(FMul(FSquare(c), g.x), FMul(FMul(c, FSquare(c)), g.y), FMul(c, g.z))

InitEq ==
    /\ curve \in GroupCurves
    /\ op = "new"
    /\ self = zero
    /\ pre = zero
    /\ other = zero
    /\ otherAff = AffineZero
    /\ Idle

New ==
    \E t \in RawTriples :
        /\ op' = "new"
        /\ self' = new(t.x, t.y, t.z)
        /\ other' = zero
        /\ eqres' = FALSE
        /\ UNCHANGED <<curve, pre, otherAff, v, vpre, panicked, inversions, k, dec, inverted,
                     serVars, circuitVars, memberVars, mulrun,
                     recoded, par, cudaVars, noop>>

Eq ==
    \E h \in RawTriples :
        /\ op' = "eq"
        /\ other' = h
        /\ eqres' = eq(self, h)
        /\ UNCHANGED <<curve, self, pre, otherAff, v, vpre, panicked, inversions, k, dec, inverted,
                     serVars, circuitVars, memberVars, mulrun,
                     recoded, par, cudaVars, noop>>

EqScaled ==
    \E c \in 1 .. Modulus - 1 :
        /\ op' = "eq_scaled"
        /\ other' = Scaled(self, c)
        /\ eqres' = eq(self, Scaled(self, c))
        /\ UNCHANGED <<curve, self, pre, otherAff, v, vpre, panicked, inversions, k, dec, inverted,
                     serVars, circuitVars, memberVars, mulrun,
                     recoded, par, cudaVars, noop>>

NextEq == New \/ Eq \/ EqScaled

SpecEq == InitEq /\ [][NextEq]_vars

\* C8: eq returns true iff both triples have Z = 0, or both have Z # 0 and
\* X1*Z2^2 = X2*Z1^2 and Y1*Z2^3 = Y2*Z1^3 (so a Z = 0 triple never equals a
\* Z # 0 triple); the relation is reflexive, symmetric and transitive.
C8_Equality ==
    op \in {"eq", "eq_scaled"} =>
        /\ eqres <=>
              \/ self.z = 0 /\ other.z = 0
              \/ /\ self.z # 0 /\ other.z # 0
                 /\ FMul(self.x, FPow(other.z, 2)) = FMul(other.x, FPow(self.z, 2))
                 /\ FMul(self.y, FPow(other.z, 3)) = FMul(other.y, FPow(self.z, 3))
        /\ eq(self, self) /\ eq(other, other)
        /\ eqres = eq(other, self)
        /\ \A t \in RawTriples : (eqres /\ eq(other, t)) => eq(self, t)

\* C8 witness: two different triples with Z # 0 that eq finds equal.
C8_Witness ==
    /\ op = "eq"
    /\ eqres
    /\ self # other /\ self.z # 0 /\ self.z # other.z

\* C9: equality respects scaling: a triple equals (c^2*X, c^3*Y, c*Z) for
\* every nonzero field element c.
C9_Scaling == op = "eq_scaled" => eqres

\* C9 witness: a Z # 0 triple with X # 0 and Y # 0 compared with a rescaling
\* that changes all three coordinates.
C9_Witness ==
    /\ op = "eq_scaled"
    /\ self.z # 0 /\ self.x # other.x /\ self.y # other.y /\ self.z # other.z
    /\ eqres

-----------------------------------------------------------------------------
(* batch_normalization (Montgomery's trick), sequential build.             *)

\* First pass: the running products [a, ab, abc, ...] of the Z coordinates of
\* the elements that are not normalized; returns the last product and the list.
RECURSIVE FirstPass(_, _, _, _)
FirstPass(s, i, tmp, prod) ==
    IF i > Len(s) THEN [tmp |-> tmp, prod |-> prod]
    ELSE IF is_normalized(s[i]) THEN FirstPass(s, i + 1, tmp, prod)
    ELSE LET t == FMul(tmp, s[i].z)
         IN FirstPass(s, i + 1, t, Append(prod, t))

\* Faulty variant: the reversed products are zipped without skipping the first.
ZipItem_no_skip(prod, j) == IF j <= Len(prod) THEN prod[Len(prod) - j + 1] ELSE 1

\* The iterator zipped with the elements in the second pass:
\* prod reversed, its first item skipped, chained with one.
ZipItem(prod, j) == IF j < Len(prod) THEN prod[Len(prod) - j] ELSE 1

\* Second pass, backwards over the elements that are not normalized:
\* g.z := tmp * s = 1/z and tmp := tmp * z.
RECURSIVE SecondPass(_, _, _, _, _)
SecondPass(s, i, tmp, prod, j) ==
    IF i = 0 \/ j > Len(prod) THEN s
    ELSE IF is_normalized(s[i]) THEN SecondPass(s, i - 1, tmp, prod, j)
    ELSE LET newtmp == FMul(tmp, s[i].z)
             g == [s[i] EXCEPT !.z = FMul(tmp, ZipItem(prod, j))]
         IN SecondPass([s EXCEPT ![i] = g], i - 1, newtmp, prod, j + 1)

\* Faulty variant: the third pass rewrites every Z = 0 element as (0, 1, 0).
Transform_canonical_zero(g, setz) ==
    IF g.z = 0 THEN zero
    ELSE IF g.z = 1 THEN g
    ELSE LET z2 == FSquare(g.z)
         IN [x |-> FMul(g.x, z2), y |-> FMul(g.y, FMul(z2, g.z)), z |-> 1]

\* The affine transformation of one element, whose z now holds 1/z;
\* setz tells whether z is set to one afterwards (the code does).
Transform(g, setz) ==
    IF is_normalized(g) THEN g
    ELSE LET z2 == FSquare(g.z)
         IN [x |-> FMul(g.x, z2),
             y |-> FMul(g.y, FMul(z2, g.z)),
             z |-> IF setz THEN 1 ELSE g.z]

\* Third pass: the affine transformation of every element not normalized.
ThirdPass(s, setz) == [i \in 1 .. Len(s) |-> Transform(s[i], setz)]

\* The whole call: the slice afterwards, whether unwrap panicked, the
\* number of field inversions (the one call of inverse() between the first
\* and the second pass) and the element that call was handed.
BatchRun(s, setz) ==
    LET first == FirstPass(s, 1, 1, << >>)
        inv == FInverse(first.tmp)
    IN IF inv = None
       THEN [v |-> s, panicked |-> TRUE, inversions |-> 1, inverted |-> Some(first.tmp)]
       ELSE [v |-> ThirdPass(SecondPass(s, Len(s), unwrap(inv), first.prod, 1), setz),
             panicked |-> FALSE, inversions |-> 1, inverted |-> Some(first.tmp)]

\* Faulty variant: every element that is not normalized is inverted on its own.
batch_normalization_inverts_each(s) ==
    [BatchRun(s, TRUE) EXCEPT !.inversions = Len(FirstPass(s, 1, 1, << >>).prod)]

\* Faulty variant: the third pass leaves z at 1/z instead of setting it to one.
batch_normalization_keeps_z(s) == BatchRun(s, FALSE)

batch_normalization(s) == BatchRun(s, TRUE)

-----------------------------------------------------------------------------
(* The batch machine: a vector is filled point by point and normalized.    *)

BatchPoints ==
    ZeroReps \cup {Rep(q, c) : q \in OnCurve(MaxInputX), c \in 1 .. MaxBatchZ}

InitBatch ==
    /\ curve = CurveA0
    /\ op = "new"
    /\ self = zero
    /\ pre = zero
    /\ other = zero
    /\ otherAff = AffineZero
    /\ Idle

Push ==
    /\ Len(v) < MaxLen
    /\ ~panicked
    /\ \E g \in BatchPoints :
          /\ op' = "push"
          /\ v' = Append(v, g)
          /\ vpre' = << >>
          /\ inversions' = 0
          /\ inverted' = None
          /\ UNCHANGED <<curve, self, pre, other, otherAff, eqres, panicked, k, dec,
                         serVars, circuitVars, memberVars, mulrun,
                     recoded, par, cudaVars, noop>>

BatchNormalization ==
    /\ ~panicked
    /\ LET run == batch_normalization(v)
       IN /\ op' = "batch_normalization"
          /\ vpre' = v
          /\ v' = run.v
          /\ panicked' = run.panicked
          /\ inversions' = run.inversions
          /\ inverted' = run.inverted
          /\ UNCHANGED <<curve, self, pre, other, otherAff, eqres, k, dec,
                         serVars, circuitVars, memberVars, mulrun,
                     recoded, par, cudaVars, noop>>

NextBatch == Push \/ BatchNormalization

SpecBatch == InitBatch /\ [][NextBatch]_vars

\* C10: after batch_normalization returns, every element of the slice is
\* normalized (Z = 1 or Z = 0), the slice has the length it had, and the
\* element at each index is the group element that was at that index.
C10_AllNormalized ==
    op = "batch_normalization" =>
        /\ ~panicked
        /\ Len(v) = Len(vpre)
        /\ \A i \in 1 .. Len(v) :
              /\ is_normalized(v[i])
              /\ v[i].z \in {0, 1}
              /\ eq(v[i], vpre[i])

\* C10 witness: a slice in which an identity sits between two different
\* group elements with Z other than 0 and 1, after the call that turned
\* both into Z = 1 triples and left the identity where it was.
C10_Witness ==
    /\ op = "batch_normalization"
    /\ \E i, j, l \in 1 .. Len(vpre) :
          /\ i < j /\ j < l
          /\ vpre[i].z \notin {0, 1} /\ is_zero(vpre[j]) /\ vpre[l].z \notin {0, 1}
          /\ ~eq(vpre[i], vpre[l])
          /\ v[i].z = 1 /\ v[j] = vpre[j] /\ v[l].z = 1

\* C11: batch_normalization preserves the group element at every index: the
\* element after the call equals (projective equality) the element before,
\* and an element that was not normalized becomes (X/Z^2, Y/Z^3, 1),
\* whatever the other elements of the slice are.
C11_PreservesElements ==
    op = "batch_normalization" =>
        \A i \in 1 .. Len(vpre) :
            /\ eq(v[i], vpre[i])
            /\ ~(vpre[i].z \in {0, 1}) =>
                   LET zinv == unwrap(FInverse(vpre[i].z))
                   IN v[i] = new(FMul(vpre[i].x, FSquare(zinv)),
                                 FMul(vpre[i].y, FMul(zinv, FSquare(zinv))), 1)

\* C11 witness: three elements with three different Z, none of them
\* normalized, two of them the same group element, after the call.
C11_Witness ==
    /\ op = "batch_normalization"
    /\ Len(vpre) = 3
    /\ vpre[1].z = 2 /\ vpre[2].z = 3 /\ vpre[3].z = 2
    /\ vpre[1] # vpre[3] /\ eq(vpre[1], vpre[2])
    /\ v[1] = v[2] /\ v[1] # v[3] /\ v[3].z = 1

\* C12: batch_normalization changes no coordinate of an element that is
\* normalized when it is called (Z = 0 with whatever X and Y, or Z = 1),
\* whatever else the slice holds; hence a call on its own output changes
\* nothing.
C12_NormalizedUntouched ==
    op = "batch_normalization" =>
        /\ \A i \in 1 .. Len(vpre) : vpre[i].z \in {0, 1} => v[i] = vpre[i]
        /\ (\A i \in 1 .. Len(vpre) : vpre[i].z \in {0, 1}) => v = vpre
        /\ batch_normalization(v).v = v

\* C12 witness: a non-canonical identity and a Z = 1 element that stayed as
\* they were, in a slice whose third element was rewritten by the call.
C12_Witness ==
    /\ op = "batch_normalization"
    /\ \E i, j, l \in 1 .. Len(vpre) :
          /\ vpre[i].z = 0 /\ vpre[i].x # 0 /\ v[i] = vpre[i]
          /\ vpre[j].z = 1 /\ v[j] = vpre[j]
          /\ vpre[l].z \notin {0, 1} /\ v[l] # vpre[l]

C20_InversionOperandNonzero ==
    op = "batch_normalization" =>
        /\ ~panicked
        /\ inverted # None
        /\ unwrap(inverted) # 0
        /\ FInverse(unwrap(inverted)) # None

\* C20 witness: a call on a slice holding an identity next to elements with
\* Z other than 0 and 1, whose inverted product is not one.
C20_Witness ==
    /\ op = "batch_normalization"
    /\ ~panicked
    /\ \E i, j \in 1 .. Len(vpre) : vpre[i].z = 0 /\ vpre[j].z \notin {0, 1}
    /\ unwrap(inverted) \notin {0, 1}

-----------------------------------------------------------------------------
(* Serialization: ToBytes::write_le and FromBytes::read_le.                *)

\* A byte holds a value below ByteBase.
ByteBase == 256

RECURSIVE NumBytes(_)
NumBytes(n) == IF n = 0 THEN 0 ELSE 1 + NumBytes(n \div ByteBase)

\* The fixed number of bytes of the encoding of a base field element.
FieldBytes == NumBytes(Modulus - 1)

\* BaseField::write_le: the canonical value in little-endian bytes.
FieldWriteLe(x) == [i \in 1 .. FieldBytes |-> (x \div (ByteBase ^ (i - 1))) % ByteBase]

RECURSIVE LeValue(_, _)
LeValue(stream, n) ==
    IF n = 0 THEN 0 ELSE stream[1] + ByteBase * LeValue(Tail(stream), n - 1)

Ok(value) == [ok |-> TRUE, value |-> value]
Err(err) == [ok |-> FALSE, err |-> err]

\* BaseField::read_le: fails when the reader runs out of bytes and when the
\* bytes read are not the encoding of a field element; rest is what the
\* reader still holds afterwards.
FieldReadLe(stream) ==
    IF Len(stream) < FieldBytes THEN [ok |-> FALSE, err |-> "UnexpectedEof"]
    ELSE IF LeValue(stream, FieldBytes) >= Modulus THEN [ok |-> FALSE, err |-> "InvalidData"]
    ELSE [ok |-> TRUE, value |-> LeValue(stream, FieldBytes),
          rest |-> SubSeq(stream, FieldBytes + 1, Len(stream))]

\* Faulty variant: the coordinates are written x, z, y.
write_le_xzy(g) == FieldWriteLe(g.x) \o FieldWriteLe(g.z) \o FieldWriteLe(g.y)

write_le(g) == FieldWriteLe(g.x) \o FieldWriteLe(g.y) \o FieldWriteLe(g.z)

read_le(reader) ==
    LET x == FieldReadLe(reader)
    IN IF ~x.ok THEN Err(x.err)
       ELSE LET y == FieldReadLe(x.rest)
            IN IF ~y.ok THEN Err(y.err)
               ELSE LET z == FieldReadLe(y.rest)
                    IN IF ~z.ok THEN Err(z.err)
                       ELSE Ok(new(x.value, y.value, z.value))

\* The triples written: small coordinates, coordinates around the byte
\* boundary and the largest field element.
SerCoords == (0 .. MaxCoord) \cup {ByteBase - 1, ByteBase, Modulus - 1}
SerTriples == [x : SerCoords, y : SerCoords, z : SerCoords]

InitSer ==
    /\ curve = CurveGlv0
    /\ op = "new"
    /\ self = zero
    /\ pre = zero
    /\ other = zero
    /\ otherAff = AffineZero
    /\ Idle

WriteLe ==
    \E t \in SerTriples :
        /\ op' = "write_le"
        /\ self' = t
        /\ bytes' = write_le(t)
        /\ readres' = << >>
        /\ UNCHANGED <<curve, pre, other, otherAff, eqres, v, vpre, panicked, inversions,
                       k, dec, inverted, circuitVars, memberVars, mulrun,
                     recoded, par, cudaVars, noop>>

\* The stream loses its last byte before it reaches the reader.
Truncate ==
    /\ op \in {"write_le", "truncate", "corrupt"}
    /\ bytes # << >>
    /\ op' = "truncate"
    /\ bytes' = SubSeq(bytes, 1, Len(bytes) - 1)
    /\ UNCHANGED <<curve, self, pre, other, otherAff, eqres, v, vpre, panicked, inversions,
                   k, dec, inverted, readres, circuitVars, memberVars, mulrun,
                     recoded, par, cudaVars, noop>>

\* The most significant byte of one coordinate is overwritten.
Corrupt ==
    /\ op \in {"write_le", "corrupt"}
    /\ \E c \in 1 .. 3 :
          /\ bytes[c * FieldBytes] # ByteBase - 1
          /\ op' = "corrupt"
          /\ bytes' = [bytes EXCEPT ![c * FieldBytes] = ByteBase - 1]
          /\ UNCHANGED <<curve, self, pre, other, otherAff, eqres, v, vpre, panicked,
                         inversions, k, dec, inverted, readres, circuitVars, memberVars, mulrun,
                     recoded, par, cudaVars, noop>>

ReadLe ==
    /\ op \in {"write_le", "truncate", "corrupt"}
    /\ op' = "read_le"
    /\ readres' = read_le(bytes)
    /\ UNCHANGED <<curve, self, pre, other, otherAff, eqres, v, vpre, panicked, inversions,
                   k, dec, inverted, bytes, circuitVars, memberVars, mulrun,
                     recoded, par, cudaVars, noop>>

NextSer == WriteLe \/ Truncate \/ Corrupt \/ ReadLe

SpecSer == InitSer /\ [][NextSer]_vars

\* The coordinate encodings found in a stream, one after the other.
CoordAt(stream, c) == SubSeq(stream, (c - 1) * FieldBytes + 1, Len(stream))

\* C14: serialization round-trips exactly.  write_le emits the encoding of
\* x, then of y, then of z and nothing else; read_le of those bytes returns
\* a point with the three coordinates of the point written, also for the
\* identity and for Z = 0 triples that are not (0, 1, 0); when reading one
\* of the coordinates fails, read_le returns the error of the first
\* coordinate that failed and no point.
C14_RoundTrip ==
    /\ op = "write_le" =>
          /\ Len(bytes) = 3 * FieldBytes
          /\ SubSeq(bytes, 1, FieldBytes) = FieldWriteLe(self.x)
          /\ SubSeq(bytes, FieldBytes + 1, 2 * FieldBytes) = FieldWriteLe(self.y)
          /\ SubSeq(bytes, 2 * FieldBytes + 1, 3 * FieldBytes) = FieldWriteLe(self.z)
          /\ read_le(bytes) = Ok(self)
    /\ op = "read_le" =>
          LET failed == {c \in 1 .. 3 : ~FieldReadLe(CoordAt(bytes, c)).ok}
          IN /\ bytes = write_le(self) => readres = Ok(self)
             /\ failed = {} => readres.ok
             /\ failed # {} =>
                   LET first == CHOOSE c \in failed : \A d \in failed : c <= d
                   IN readres = Err(FieldReadLe(CoordAt(bytes, first)).err)

\* C14 witness: a Z = 0 triple that is not (0, 1, 0), with a two-byte X and
\* three different coordinates, read back from the bytes written.
C14_Witness ==
    /\ op = "read_le"
    /\ bytes = write_le(self)
    /\ self.z = 0 /\ self.x >= ByteBase /\ self.y \notin {self.x, self.z, 1}
    /\ readres = Ok(self)

-----------------------------------------------------------------------------
(* circuit/types/field/src/equal.rs: the field equality gadget over the    *)
(* constraint system of the environment.  The environment's base field is  *)
(* the base field of the curve parameters in use.                          *)

Modes == {"Constant", "Public", "Private"}

\* A circuit field (or boolean): its mode and its ejected value.
FieldNew(mode, value) == [mode |-> mode, value |-> value]

\* A linear combination handed to enforce: its value, and whether it is a
\* constant.
Lc(value, constant) == [value |-> value, constant |-> constant]

\* The constraint system at the start of a scope: nothing counted yet.
CircuitReset == [constants |-> 0, public |-> 0, private |-> 0, constraints |-> << >>]

\* E::new_variable: one more variable of the mode.
new_variable(c, mode) ==
    IF mode = "Constant" THEN [c EXCEPT !.constants = @ + 1]
    ELSE IF mode = "Public" THEN [c EXCEPT !.public = @ + 1]
    ELSE [c EXCEPT !.private = @ + 1]

\* E::enforce: a * b = c is added unless all three are constants.
enforce(c, x, y, z) ==
    IF x.constant /\ y.constant /\ z.constant THEN c
    ELSE [c EXCEPT !.constraints = Append(@, <<x.value, y.value, z.value>>)]

\* E::is_satisfied: every constraint holds of the values assigned.
is_satisfied(c) ==
    \A i \in 1 .. Len(c.constraints) :
        FMul(c.constraints[i][1], c.constraints[i][2]) = c.constraints[i][3]

\* Faulty variant: the second constraint is left out.
Enforce2_first_only(c, delta, multiplier, is_neq) ==
    enforce(c, delta, Lc(multiplier, FALSE), Lc(is_neq, FALSE))

\* The two constraints of is_not_equal:
\*   (self - other) (multiplier) = (is_neq)
\*   (self - other) (1 - is_neq) = (0)
Enforce2(c, delta, multiplier, is_neq) ==
    LET is_eq == FSub(1, is_neq)
        c1 == enforce(c, delta, Lc(multiplier, FALSE), Lc(is_neq, FALSE))
    IN enforce(c1, delta, Lc(is_eq, FALSE), Lc(0, TRUE))

\* Faulty variant: the witness is the difference itself, not its inverse.
Multiplier_no_inverse(delta) == IF delta # 0 THEN delta ELSE 1

\* The witness assigned to multiplier: the inverse of delta, or one.
Multiplier(delta) ==
    LET inverse == FInverse(delta)
    IN IF inverse # None THEN unwrap(inverse) ELSE 1

\* The private branch of is_not_equal, whatever the modes of the operands.
is_not_equal_private(c, a, b) ==
    LET is_neq_ejected == a.value # b.value
        is_neq == IF is_neq_ejected THEN 1 ELSE 0
        c1 == new_variable(c, "Private")
        delta == Lc(FSub(a.value, b.value), a.mode = "Constant" /\ b.mode = "Constant")
        multiplier == Multiplier(delta.value)
        c2 == new_variable(c1, "Private")
    IN [circuit |-> Enforce2(c2, delta, multiplier, is_neq),
        multiplier |-> multiplier, is_neq |-> is_neq,
        output |-> FieldNew("Private", is_neq_ejected)]

\* Faulty variant: two constant operands take the private branch as well.
is_not_equal_no_constant_case(c, a, b) == is_not_equal_private(c, a, b)

\* Field::is_not_equal.
is_not_equal(c, a, b) ==
    IF a.mode = "Constant" /\ b.mode = "Constant"
    THEN [circuit |-> new_variable(c, "Constant"),
          multiplier |-> None, is_neq |-> None,
          output |-> FieldNew("Constant", a.value # b.value)]
    ELSE is_not_equal_private(c, a, b)

\* Not for Boolean: 1 - x; a constant stays a constant, anything else is a
\* linear combination of private mode.
Not(x) == FieldNew(IF x.mode = "Constant" THEN "Constant" ELSE "Private", ~x.value)

\* Field::is_equal.
is_equal(c, a, b) ==
    LET neq == is_not_equal(c, a, b)
    IN [neq EXCEPT !.output = Not(neq.output)]

FieldElements == 0 .. Modulus - 1

InitCircuit ==
    /\ curve = CurveA0
    /\ op = "new"
    /\ self = zero
    /\ pre = zero
    /\ other = zero
    /\ otherAff = AffineZero
    /\ Idle

\* The gadget and the constraint system after a call with operands a and b.
Called(what, a, b, run) ==
    /\ op = "new"
    /\ op' = what
    /\ gadget' = [a |-> a, b |-> b, multiplier |-> run.multiplier,
                  is_neq |-> run.is_neq, output |-> run.output]
    /\ circuit' = run.circuit
    /\ UNCHANGED <<curve, self, pre, other, otherAff, eqres, v, vpre, panicked, inversions,
                   k, dec, inverted, serVars, memberVars, mulrun,
                     recoded, par, cudaVars, noop>>

\* check_is_not_equal: a call of is_not_equal in a fresh scope.
IsNotEqual ==
    \E ma, mb \in Modes, x, y \in FieldElements :
        LET a == FieldNew(ma, x)
            b == FieldNew(mb, y)
        IN Called("is_not_equal", a, b, is_not_equal(CircuitReset, a, b))

\* check_is_equal: a call of is_equal in a fresh scope.
IsEqual ==
    \E ma, mb \in Modes, x, y \in FieldElements :
        LET a == FieldNew(ma, x)
            b == FieldNew(mb, y)
        IN Called("is_equal", a, b, is_equal(CircuitReset, a, b))

\* The two constraints over private operands with a multiplier and an
\* is_neq of the prover's choosing (the enforce closure of test_is_neq_cases).
Enforce ==
    \E x, y, multiplier, is_neq \in FieldElements :
        LET a == FieldNew("Private", x)
            b == FieldNew("Private", y)
            delta == Lc(FSub(x, y), FALSE)
        IN Called("enforce", a, b,
                  [circuit |-> Enforce2(CircuitReset, delta, multiplier, is_neq),
                   multiplier |-> multiplier, is_neq |-> is_neq,
                   output |-> FieldNew("Private", is_neq)])

\* Circuit::reset.
Reset ==
    /\ op # "new"
    /\ op' = "new"
    /\ gadget' = << >>
    /\ circuit' = << >>
    /\ UNCHANGED <<curve, self, pre, other, otherAff, eqres, v, vpre, panicked, inversions,
                   k, dec, inverted, serVars, memberVars, mulrun,
                     recoded, par, cudaVars, noop>>

NextCircuit == IsNotEqual \/ IsEqual \/ Enforce \/ Reset

SpecCircuit == InitCircuit /\ [][NextCircuit]_vars

\* C16: the two constraints are sound.  Whatever a, b, multiplier and is_neq
\* are assigned, if (a - b) * multiplier = is_neq and
\* (a - b) * (1 - is_neq) = 0 both hold then is_neq is 0 or 1 and is 1
\* exactly when a # b; so a = b with is_neq = 1, a # b with is_neq = 0, and
\* a # b with is_neq = 1 and a multiplier that is not the inverse of a - b
\* each leave the circuit unsatisfied.
C16_Soundness ==
    op = "enforce" =>
        LET a == gadget.a.value
            b == gadget.b.value
        IN /\ is_satisfied(circuit) =>
                 /\ gadget.is_neq \in {0, 1}
                 /\ gadget.is_neq = 1 <=> a # b
           /\ (a = b /\ gadget.is_neq = 1) => ~is_satisfied(circuit)
           /\ (a # b /\ gadget.is_neq = 0) => ~is_satisfied(circuit)
           /\ (a # b /\ gadget.is_neq = 1
                  /\ FMul(gadget.multiplier, FSub(a, b)) # 1) => ~is_satisfied(circuit)

\* C16 witness: a # b with is_neq = 1 and a multiplier that is neither 0 nor
\* 1 nor the inverse of a - b, which leaves the circuit unsatisfied.
C16_Witness ==
    /\ op = "enforce"
    /\ gadget.a.value # gadget.b.value
    /\ gadget.is_neq = 1
    /\ gadget.multiplier \notin {0, 1}
    /\ FMul(gadget.multiplier, FSub(gadget.a.value, gadget.b.value)) # 1
    /\ ~is_satisfied(circuit)

\* C17: for all a, b and all operand modes, is_not_equal ejects true exactly
\* when a # b and is_equal ejects the negation; the witness the gadget
\* assigns (multiplier = the inverse of a - b, or one when a = b) satisfies
\* both constraints, so the circuit stays satisfied.
C17_Functional ==
    /\ op = "is_not_equal" => (gadget.output.value <=> gadget.a.value # gadget.b.value)
    /\ op = "is_equal" => (gadget.output.value <=> gadget.a.value = gadget.b.value)
    /\ op \in {"is_not_equal", "is_equal"} =>
          /\ is_satisfied(circuit)
          /\ ~(gadget.a.mode = "Constant" /\ gadget.b.mode = "Constant") =>
                LET delta == FSub(gadget.a.value, gadget.b.value)
                IN /\ delta # 0 => FMul(delta, gadget.multiplier) = 1
                   /\ delta = 0 => gadget.multiplier = 1
                   /\ FMul(delta, gadget.multiplier) = gadget.is_neq
                   /\ FMul(delta, FSub(1, gadget.is_neq)) = 0

\* C17 witness: is_equal of a public and a private operand whose difference
\* is neither 0, 1 nor -1, ejecting false with both constraints satisfied.
C17_Witness ==
    /\ op = "is_equal"
    /\ gadget.a.mode = "Public" /\ gadget.b.mode = "Private"
    /\ FSub(gadget.a.value, gadget.b.value) \notin {0, 1, Modulus - 1}
    /\ ~gadget.output.value
    /\ Len(circuit.constraints) = 2 /\ is_satisfied(circuit)

\* C18: cost and output mode.  With two constant operands the call adds no
\* constraint and no public or private variable and returns a constant; in
\* every other combination of modes it adds exactly 2 constraints and
\* exactly 2 private variables (and no public one) and returns a boolean of
\* private mode.
C18_Cost ==
    op \in {"is_not_equal", "is_equal"} =>
        IF gadget.a.mode = "Constant" /\ gadget.b.mode = "Constant"
        THEN /\ Len(circuit.constraints) = 0
             /\ circuit.public = 0 /\ circuit.private = 0
             /\ gadget.output.mode = "Constant"
        ELSE /\ Len(circuit.constraints) = 2
             /\ circuit.public = 0 /\ circuit.private = 2
             /\ gadget.output.mode = "Private"

\* C18 witness: a constant compared with a public operand, at the cost of 2
\* private variables and 2 constraints.
C18_Witness ==
    /\ op = "is_not_equal"
    /\ gadget.a.mode = "Constant" /\ gadget.b.mode = "Public"
    /\ circuit.private = 2 /\ Len(circuit.constraints) = 2
    /\ gadget.output.mode = "Private"

-----------------------------------------------------------------------------
(* circuits/core/src/helpers/templates/member.rs: the member statement     *)
(* `{identifier} as {annotation};`.  Strings are sequences of characters.  *)

Letters == {"a", "b", "c", "d", "e", "f", "g", "i", "l", "n", "o", "p", "r", "s",
            "t", "u", "v", "w", "S"}
Digits == {"0", "1", "8"}
Whitespace == {" ", "\n"}

\* A ParserResult: the remaining input and the value parsed, or an error.
Parsed(rest, value) == [ok |-> TRUE, rest |-> rest, value |-> value]
ParseError == [ok |-> FALSE]

StartsWith(str, t) == Len(str) >= Len(t) /\ SubSeq(str, 1, Len(t)) = t
Drop(str, n) == SubSeq(str, n + 1, Len(str))

\* nom's tag: the input must start with t.
tag(t, str) == IF StartsWith(str, t) THEN Parsed(Drop(str, Len(t)), t) ELSE ParseError

\* The input after the line comment it starts with.
RECURSIVE SkipLine(_)
SkipLine(str) ==
    IF str = << >> THEN str
    ELSE IF Head(str) = "\n" THEN Tail(str)
    ELSE SkipLine(Tail(str))

\* Sanitizer::parse: consumes leading whitespace and comments; never fails.
RECURSIVE SanitizerParse(_)
SanitizerParse(str) ==
    IF str # << >> /\ Head(str) \in Whitespace THEN SanitizerParse(Tail(str))
    ELSE IF StartsWith(str, <<"/", "/">>) THEN SanitizerParse(SkipLine(str))
    ELSE Parsed(str, << >>)

\* The longest prefix of str made of letters, digits and underscores.
RECURSIVE Word(_)
Word(str) ==
    IF str # << >> /\ Head(str) \in Letters \cup Digits \cup {"_"}
    THEN <<Head(str)>> \o Word(Tail(str))
    ELSE << >>

\* Identifier::parse: a letter followed by letters, digits and underscores.
IdentifierParse(str) ==
    IF str # << >> /\ Head(str) \in Letters
    THEN Parsed(Drop(str, Len(Word(str))), Word(str))
    ELSE ParseError

\* The names of the literal types and of the modes, as they are written.
LiteralTypeNames == [field |-> <<"f", "i", "e", "l", "d">>, u8 |-> <<"u", "8">>]
ModeNames == [constant |-> <<"c", "o", "n", "s", "t", "a", "n", "t">>, public |-> <<"p", "u", "b", "l", "i", "c">>, private |-> <<"p", "r", "i", "v", "a", "t", "e">>]

\* LiteralType::parse: `{type}.{mode}`.
LiteralTypeParse(str) ==
    LET ts == {t \in DOMAIN LiteralTypeNames : StartsWith(str, LiteralTypeNames[t] \o <<".">>)}
    IN IF ts = {} THEN ParseError
       ELSE LET t == CHOOSE t \in ts : TRUE
                rest == Drop(str, Len(LiteralTypeNames[t]) + 1)
                ms == {m \in DOMAIN ModeNames : StartsWith(rest, ModeNames[m])}
            IN IF ms = {} THEN ParseError
               ELSE LET m == CHOOSE m \in ms : TRUE
                    IN Parsed(Drop(rest, Len(ModeNames[m])),
                              [kind |-> "Literal", type |-> t, mode |-> m])

\* Annotation::parse: a literal type, the record keyword, or the identifier
\* of a composite.
AnnotationParse(str) ==
    LET literal == LiteralTypeParse(str)
        ident == IdentifierParse(str)
    IN IF literal.ok THEN literal
       ELSE IF ~ident.ok THEN ParseError
       ELSE IF ident.value = <<"r", "e", "c", "o", "r", "d">> THEN Parsed(ident.rest, [kind |-> "Record"])
       ELSE Parsed(ident.rest, [kind |-> "Composite", name |-> ident.value])

\* Display for Annotation.
AnnotationDisplay(annotation) ==
    IF annotation.kind = "Literal"
    THEN LiteralTypeNames[annotation.type] \o <<".">> \o ModeNames[annotation.mode]
    ELSE IF annotation.kind = "Record" THEN <<"r", "e", "c", "o", "r", "d">>
    ELSE annotation.name

\* Member::parse.
MemberParse(str) ==
    LET sanitized == SanitizerParse(str)
        name == IdentifierParse(sanitized.rest)
    IN IF ~name.ok THEN ParseError
       ELSE LET as == tag(<<" ", "a", "s", " ">>, name.rest)
            IN IF ~as.ok THEN ParseError
               ELSE LET annotation == AnnotationParse(as.rest)
                    IN IF ~annotation.ok THEN ParseError
                       ELSE LET semicolon == tag(<<";">>, annotation.rest)
                            IN IF ~semicolon.ok THEN ParseError
                               ELSE Parsed(semicolon.rest,
                                           [name |-> name.value,
                                            annotation |-> annotation.value])

\* Faulty variant: the member is written `{name}: {annotation};`.
MemberDisplay_colon(m) ==
    m.name \o <<":", " ">> \o AnnotationDisplay(m.annotation) \o <<";">>

\* Display for Member: `{name} as {annotation};`.
MemberDisplay(m) == m.name \o <<" ", "a", "s", " ">> \o AnnotationDisplay(m.annotation) \o <<";">>

\* The strings handed to Member::parse: what precedes the statement, the
\* name, the separator, the annotation, the terminator and what follows.
Leadings ==
    {<< >>,
     <<" ">>,
     <<"\n", " ">>,
     <<"/", "/", "c", "\n">>,
     <<"/", "/", "c", "\n", " ", " ", "/", "/", "d", "\n">>}
Names ==
    {<<"o", "w", "n", "e", "r">>,
     <<"o", "_", "1">>,
     <<"1", "o">>,
     << >>,
     <<"_", "o">>}
Separators ==
    {<<" ", "a", "s", " ">>,
     <<"a", "s">>,
     <<" ", " ", "a", "s", " ">>,
     <<" ", "a", "s", " ", " ">>,
     <<" ", "a", "S", " ">>}
Annotations ==
    {<<"f", "i", "e", "l", "d", ".", "p", "r", "i", "v", "a", "t", "e">>,
     <<"u", "8", ".", "p", "u", "b", "l", "i", "c">>,
     <<"u", "8", ".", "c", "o", "n", "s", "t", "a", "n", "t">>,
     <<"s", "i", "g", "n", "a", "t", "u", "r", "e">>,
     <<"r", "e", "c", "o", "r", "d">>,
     <<"u", "8">>,
     <<"u", "8", ".">>,
     <<"f", "i", "e", "l", "d", " ", ".", "p", "r", "i", "v", "a", "t", "e">>,
     << >>}
Terminators ==
    {<<";">>,
     << >>,
     <<" ", ";">>}
Trailings ==
    {<< >>,
     <<" ">>,
     <<"\n">>,
     <<";">>}

MemberStrings ==
    {l \o n \o p \o a \o t \o r :
        l \in Leadings, n \in Names, p \in Separators, a \in Annotations,
        t \in Terminators, r \in Trailings}

InitMember ==
    /\ curve = CurveA0
    /\ op = "new"
    /\ self = zero
    /\ pre = zero
    /\ other = zero
    /\ otherAff = AffineZero
    /\ Idle

\* Member::parse(string), and format!("{member}") of the member parsed.
Parse ==
    /\ op = "new"
    /\ \E str \in MemberStrings :
          LET result == MemberParse(str)
          IN /\ op' = "parse"
             /\ string' = str
             /\ member' = [result |-> result,
                           display |-> IF result.ok THEN MemberDisplay(result.value)
                                       ELSE << >>]
             /\ UNCHANGED <<curve, self, pre, other, otherAff, eqres, v, vpre, panicked,
                            inversions, k, dec, inverted, serVars, circuitVars, mulrun,
                     recoded, par, cudaVars, noop>>

NextMember == Parse

SpecMember == InitMember /\ [][NextMember]_vars

Accepted == op = "parse" /\ member.result.ok /\ member.result.rest = << >>

\* C19 as stated: for every string that Member::parse accepts consuming all
\* of it, Display of the parsed member yields exactly that string.
C19_AsStated == Accepted => member.display = string

\* C19, amended: for every string that Member::parse accepts consuming all
\* of it, Display of the parsed member yields the string without the
\* leading whitespace and comments that the parser skips; it yields exactly
\* the string when the string starts with the identifier.
C19_RoundTrip ==
    Accepted =>
        /\ \E n \in 0 .. Len(string) :
              /\ member.display = Drop(string, n)
              /\ member.display[1] \in Letters
              /\ n > 0 => string[1] \in Whitespace \cup {"/"}
        /\ string[1] \in Letters => member.display = string

\* C19 witness: `owner as field.private;` parsed and displayed as written.
C19_Witness ==
    /\ Accepted
    /\ string = <<"o", "w", "n", "e", "r">> \o <<" ", "a", "s", " ">> \o <<"f", "i", "e", "l", "d">> \o <<".">> \o <<"p", "r", "i", "v", "a", "t", "e">> \o <<";">>
    /\ member.result.value.annotation.kind = "Literal"
    /\ member.display = string

-----------------------------------------------------------------------------
(* Scalar multiplication: GLV decomposition, width-5 wNAF recoding and the *)
(* interleaved accumulation over two precomputed tables.                   *)

\* The scalar multiplication window size.
GLV_WINDOW_SIZE == 4
\* The table size, used for w-ary NAF recoding.
TABLE_SIZE == 2 ^ (GLV_WINDOW_SIZE + 1)
HALF_TABLE_SIZE == 2 ^ GLV_WINDOW_SIZE
\* The GLV table length.
L == 2 ^ (GLV_WINDOW_SIZE - 1)

\* P::glv_endomorphism: (x, y) -> (beta*x, y) on a curve with a = 0 and
\* (x, y) -> (-x, beta*y) on a curve with b = 0; it acts on the subgroup
\* of order r as the multiplication by lambda.
glv_endomorphism(q) ==
    IF q.infinity THEN q
    ELSE IF curve.j1728 THEN AffineNew(FNeg(q.x), FMul(curve.beta, q.y), FALSE)
    ELSE AffineNew(FMul(curve.beta, q.x), q.y, FALSE)

\* The scalar the decomposition (k1, k2, s1, s2) stands for: s1 tells that k1
\* counts negatively, s2 that k2 * lambda counts positively.
Recombine(d) ==
    ((IF d.s1 THEN ScalarModulus - d.k1 ELSE d.k1)
     + (IF d.s2 THEN d.k2 ELSE ScalarModulus - d.k2) * curve.lambda) % ScalarModulus

\* Sub-scalars have half the bit length of the scalar field modulus.
RECURSIVE NumBits(_)
NumBits(n) == IF n = 0 THEN 0 ELSE 1 + NumBits(n \div 2)

SubScalars == 0 .. 2 ^ ((NumBits(ScalarModulus) + 1) \div 2)

\* The decompositions of e with the given second sub-scalar and sign flag:
\* the first sub-scalar is fixed modulo r, and is taken with the sign flag
\* under which it is in range; a zero sub-scalar has its flag unset.
DecompositionsWith(e, k2, s2) ==
    LET rest == (e + (IF s2 THEN ScalarModulus - 1 ELSE 1) * k2 * curve.lambda)
                    % ScalarModulus
    IN {d \in {[k1 |-> rest, k2 |-> k2, s1 |-> FALSE, s2 |-> s2],
               [k1 |-> ScalarModulus - rest, k2 |-> k2, s1 |-> TRUE, s2 |-> s2]} :
           /\ d.k1 \in SubScalars
           /\ d.k1 = 0 => ~d.s1
           /\ d.k2 = 0 => ~d.s2}

ValidDecompositions(e) ==
    UNION {DecompositionsWith(e, k2, s2) : k2 \in SubScalars, s2 \in BOOLEAN}

\* ScalarField::decompose: the shortest decompositions of e.
decompose(e) ==
    LET valid == ValidDecompositions(e)
        norm(d) == d.k1 * d.k1 + d.k2 * d.k2
    IN {d \in valid : \A c \in valid : norm(d) <= norm(c)}

Abs(n) == IF n < 0 THEN -n ELSE n

\* Faulty variant: the residue is never made negative.
mod_signed_unsigned(d) == d % TABLE_SIZE

\* Faulty variant: the residue is made negative from a quarter of the table on.
mod_signed_half_threshold(d) ==
    LET d_mod_window_size == d % TABLE_SIZE
    IN IF d_mod_window_size >= HALF_TABLE_SIZE \div 2
       THEN d_mod_window_size - TABLE_SIZE
       ELSE d_mod_window_size

\* d & MASK_FOR_MOD_TABLE_SIZE as a signed residue in [-16, 16).
mod_signed(d) ==
    LET d_mod_window_size == d % TABLE_SIZE
    IN IF d_mod_window_size >= HALF_TABLE_SIZE
       THEN d_mod_window_size - TABLE_SIZE
       ELSE d_mod_window_size

\* BigInteger::add_nocarry and sub_noborrow in the width of the representation.
add_nocarry(e, x) == (e + x) % (2 ^ curve.reprbits)
sub_noborrow(e, x) == (e + 2 ^ curve.reprbits - x) % (2 ^ curve.reprbits)

\* One iteration of the loop of to_wnaf: the digit pushed for the running
\* value e (the signed residue of an odd e, zero for an even e).
Digit(e) == IF e % 2 = 1 THEN mod_signed(e) ELSE 0

\* Faulty variant: the digit is subtracted whatever its sign.
Reduced_no_add(e) ==
    IF e % 2 = 1 THEN sub_noborrow(e, Abs(mod_signed(e))) ELSE e

\* The running value once the digit is taken out of it, before div2.
Reduced(e) ==
    IF e % 2 = 1 THEN
        LET naf_sign == mod_signed(e)
        IN IF naf_sign < 0 THEN add_nocarry(e, -naf_sign)
           ELSE sub_noborrow(e, naf_sign)
    ELSE e

\* to_wnaf: the digits of e, least significant first.
RECURSIVE to_wnaf_loop(_, _)
to_wnaf_loop(e, naf) ==
    IF e = 0 THEN naf
    ELSE to_wnaf_loop(Reduced(e) \div 2, Append(naf, Digit(e)))

\* The integer a digit sequence stands for, least significant digit first.
RECURSIVE NafValue(_)
NafValue(naf) == IF naf = << >> THEN 0 ELSE naf[1] + 2 * NafValue(Tail(naf))

to_wnaf(e) == to_wnaf_loop(e, << >>)

Negated(naf) == [i \in 1 .. Len(naf) |-> -naf[i]]

\* Faulty variant: the first sequence is negated when s1 does not hold.
wnaf_first_flag_inverted(k1, k2, s1, s2) ==
    <<IF ~s1 THEN Negated(to_wnaf(k1)) ELSE to_wnaf(k1),
      IF ~s2 THEN Negated(to_wnaf(k2)) ELSE to_wnaf(k2)>>

\* Faulty variant: the second sequence is negated when s2 holds.
wnaf_same_convention(k1, k2, s1, s2) ==
    <<IF s1 THEN Negated(to_wnaf(k1)) ELSE to_wnaf(k1),
      IF s2 THEN Negated(to_wnaf(k2)) ELSE to_wnaf(k2)>>

\* wnaf: both recodings with the decomposition's signs applied.
wnaf(k1, k2, s1, s2) ==
    <<IF s1 THEN Negated(to_wnaf(k1)) ELSE to_wnaf(k1),
      IF ~s2 THEN Negated(to_wnaf(k2)) ELSE to_wnaf(k2)>>

\* naf_add: adds table[|naf| >> 1], negated for a negative digit.
naf_add(table, naf, acc) ==
    IF naf # 0 THEN
        LET p_1 == table[(Abs(naf) \div 2) + 1]
        IN add_assign_mixed(acc, IF naf < 0 THEN AffineNeg(p_1) ELSE p_1)
    ELSE acc

\* Faulty variant: the table is built by adding P instead of 2P.
RECURSIVE BuildTable_adds_point(_, _)
BuildTable_adds_point(t, dbl) ==
    IF Len(t) >= L THEN t
    ELSE BuildTable_adds_point(Append(t, add_mixed(t[Len(t)], AffineFrom(t[1]))), dbl)

\* t_1 before normalization: [P, P + 2P, P + 4P, ...], L entries.
RECURSIVE BuildTable(_, _)
BuildTable(t, dbl) ==
    IF Len(t) >= L THEN t
    ELSE BuildTable(Append(t, add_mixed(t[Len(t)], dbl)), dbl)

\* ProjectiveCurve::batch_normalization_into_affine.
batch_normalization_into_affine(t) ==
    LET n == batch_normalization(t).v
    IN [i \in 1 .. Len(n) |-> AffineFrom(n[i])]

\* One entry of the log of the accumulation loop: the step taken in
\* iteration i and the accumulator before and after it.
Step(what, i, digit, before, after) ==
    [step |-> what, i |-> i, digit |-> digit, before |-> before, after |-> after]

\* Faulty variant: the accumulator is doubled at position 0 as well.
RECURSIVE Accumulate_doubles_at_zero(_, _, _, _, _, _)
Accumulate_doubles_at_zero(i, st, t_1, t_2, naf_1, naf_2) ==
    IF i < 0 THEN st
    ELSE LET d1 == IF i < Len(naf_1) THEN naf_1[i + 1] ELSE 0
             a1 == IF i < Len(naf_1) THEN naf_add(t_1, naf_1[i + 1], st.acc) ELSE st.acc
             l1 == IF d1 # 0 THEN Append(st.log, Step("naf_add_1", i, d1, st.acc, a1))
                   ELSE st.log
             d2 == IF i < Len(naf_2) THEN naf_2[i + 1] ELSE 0
             a2 == IF i < Len(naf_2) THEN naf_add(t_2, naf_2[i + 1], a1) ELSE a1
             l2 == IF d2 # 0 THEN Append(l1, Step("naf_add_2", i, d2, a1, a2)) ELSE l1
             a3 == double_in_place(a2)
             l3 == Append(l2, Step("double_in_place", i, 0, a2, a3))
         IN Accumulate_doubles_at_zero(i - 1, [acc |-> a3, log |-> l3],
                                       t_1, t_2, naf_1, naf_2)

\* The accumulation loop, for i = max_len - 1 down to 0 (digit i is
\* naf[i + 1]); st holds the accumulator and the log of the mixed additions
\* and doublings performed so far.
RECURSIVE Accumulate(_, _, _, _, _, _)
Accumulate(i, st, t_1, t_2, naf_1, naf_2) ==
    IF i < 0 THEN st
    ELSE LET d1 == IF i < Len(naf_1) THEN naf_1[i + 1] ELSE 0
             a1 == IF i < Len(naf_1) THEN naf_add(t_1, naf_1[i + 1], st.acc) ELSE st.acc
             l1 == IF d1 # 0 THEN Append(st.log, Step("naf_add_1", i, d1, st.acc, a1))
                   ELSE st.log
             d2 == IF i < Len(naf_2) THEN naf_2[i + 1] ELSE 0
             a2 == IF i < Len(naf_2) THEN naf_add(t_2, naf_2[i + 1], a1) ELSE a1
             l2 == IF d2 # 0 THEN Append(l1, Step("naf_add_2", i, d2, a1, a2)) ELSE l1
             a3 == IF i # 0 THEN double_in_place(a2) ELSE a2
             l3 == IF i # 0 THEN Append(l2, Step("double_in_place", i, 0, a2, a3)) ELSE l2
         IN Accumulate(i - 1, [acc |-> a3, log |-> l3], t_1, t_2, naf_1, naf_2)

Max(a, b) == IF a >= b THEN a ELSE b

\* The body of mul for self = g and the decomposition d of the scalar: the
\* tables, the digit sequences, the log of the loop and the accumulator
\* returned.
mul_run(g, d) ==
    LET dbl == AffineFrom(double(g))
        t_1 == batch_normalization_into_affine(BuildTable(<<g>>, dbl))
        t_2 == [i \in 1 .. Len(t_1) |-> glv_endomorphism(t_1[i])]
        nafs == wnaf(d.k1, d.k2, d.s1, d.s2)
        max_len == Max(Len(nafs[1]), Len(nafs[2]))
        end == Accumulate(max_len - 1, [acc |-> zero, log |-> << >>],
                          t_1, t_2, nafs[1], nafs[2])
    IN [t_1 |-> t_1, t_2 |-> t_2, naf_1 |-> nafs[1], naf_2 |-> nafs[2],
        log |-> end.log, acc |-> end.acc]

\* Faulty variant: the accumulator starts at the point instead of at zero.
mul_from_self(g, d) ==
    LET dbl == AffineFrom(double(g))
        t_1 == batch_normalization_into_affine(BuildTable(<<g>>, dbl))
        t_2 == [i \in 1 .. Len(t_1) |-> glv_endomorphism(t_1[i])]
        nafs == wnaf(d.k1, d.k2, d.s1, d.s2)
        max_len == Max(Len(nafs[1]), Len(nafs[2]))
    IN Accumulate(max_len - 1, [acc |-> g, log |-> << >>],
                  t_1, t_2, nafs[1], nafs[2]).acc

\* Mul<P::ScalarField> for Projective: self * k with decomposition d of k.
mul(g, d) == mul_run(g, d).acc

\* Naive multiplication: double-and-add over the bits of the scalar's
\* integer representation, most significant first.
RECURSIVE mul_bits(_, _)
mul_bits(g, e) ==
    IF e = 0 THEN zero
    ELSE LET half == double_in_place(mul_bits(g, e \div 2))
         IN IF e % 2 = 1 THEN add_assign(half, g) ELSE half

\* Membership in the subgroup of prime order r.
InSubgroup(g) == is_zero(mul_bits(g, ScalarModulus))

-----------------------------------------------------------------------------
(* The multiplication machine: a point is constructed and multiplied once. *)

MulPoints == Points(MaxInputX)

InitMul ==
    /\ curve \in MulCurves
    /\ op = "new"
    /\ self \in MulPoints
    /\ pre = zero
    /\ other = zero
    /\ otherAff = AffineZero
    /\ Idle

Mul ==
    /\ op = "new"
    /\ \E e \in 0 .. ScalarModulus - 1 :
          \E d \in decompose(e) :
             /\ op' = "mul"
             /\ pre' = self
             /\ k' = e
             /\ dec' = d
             /\ self' = mul(self, d)
             /\ mulrun' = mul_run(self, d)
             /\ UNCHANGED <<curve, other, otherAff, eqres, v, vpre, panicked,
                            inversions, inverted, serVars, circuitVars, memberVars,
                            recoded, par, cudaVars, noop>>

NextMul == Mul

SpecMul == InitMul /\ [][NextMul]_vars

\* C1 as stated: for every scalar k and every curve point P, P * k equals
\* the double-and-add multiplication of P by k.
C1_AsStated == op = "mul" => eq(self, mul_bits(pre, k))

\* C1, amended: for every scalar k and every curve point P of the subgroup
\* of prime order r (the scalar field modulus), P * k computed by the GLV
\* decomposition, the wNAF recoding and the interleaved table additions
\* equals the double-and-add multiplication of P by k; in particular
\* 1 * P = P.
C1_MulMatchesNaive ==
    (op = "mul" /\ InSubgroup(pre)) =>
        /\ eq(self, mul_bits(pre, k))
        /\ k = 1 => eq(self, pre)

\* C1 witness: a subgroup point other than the identity, in a representative
\* with Z # 1, multiplied by a scalar whose two sub-scalars are both nonzero
\* and whose first recoding has a negative digit, with a product that is not
\* the identity.
C1_Witness ==
    /\ op = "mul"
    /\ InSubgroup(pre) /\ ~is_zero(pre) /\ pre.z # 1
    /\ dec.k1 # 0 /\ dec.k2 # 0
    /\ \E i \in 1 .. Len(to_wnaf(dec.k1)) : to_wnaf(dec.k1)[i] < 0
    /\ ~is_zero(self)

\* C15: scalar multiplication annihilates on zero.  P * 0 is the identity
\* for every point P: both digit sequences are empty, the loop performs no
\* addition and no doubling and the accumulator returned is zero().
\* identity * k is the identity for every scalar k: every entry of both
\* tables is the affine zero and every mixed addition leaves the
\* accumulator as it was.
C15_AnnihilatesOnZero ==
    op = "mul" =>
        /\ k = 0 =>
              /\ mulrun.naf_1 = << >> /\ mulrun.naf_2 = << >>
              /\ mulrun.log = << >>
              /\ self = zero
        /\ pre.z = 0 =>
              /\ \A i \in 1 .. L : mulrun.t_1[i].infinity /\ mulrun.t_2[i].infinity
              /\ \A n \in 1 .. Len(mulrun.log) :
                    mulrun.log[n].step \in {"naf_add_1", "naf_add_2"} =>
                        mulrun.log[n].after = mulrun.log[n].before
              /\ self.z = 0

\* C15 witness: an identity that is not (0, 1, 0) multiplied by a scalar
\* whose two digit sequences made the loop add from both tables and double.
C15_Witness ==
    /\ op = "mul"
    /\ pre.z = 0 /\ pre # zero
    /\ k > 1
    /\ \E a, b, c \in 1 .. Len(mulrun.log) :
          /\ mulrun.log[a].step = "naf_add_1"
          /\ mulrun.log[b].step = "naf_add_2"
          /\ mulrun.log[c].step = "double_in_place"
    /\ self.z = 0

\* n * g for a signed integer n, by double-and-add and negation.
SignedMul(g, n) == IF n < 0 THEN neg(mul_bits(g, -n)) ELSE mul_bits(g, n)

\* The endomorphism image of a point given in Jacobian coordinates.
endo(g) == FromAffine(glv_endomorphism(AffineFrom(g)))

\* The place of a step within one iteration of the accumulation loop.
Rank(what) == CASE what = "naf_add_1" -> 1
                [] what = "naf_add_2" -> 2
                [] what = "double_in_place" -> 3

\* The number of doublings in a log of the accumulation loop.
Doublings(log) == Cardinality({n \in 1 .. Len(log) : log[n].step = "double_in_place"})

\* The steps of a run are those of the positions max_len - 1 down to 0, in
\* that order, and within a position the addition from t_1, then the
\* addition from t_2, then the doubling (none at position 0); each step
\* starts from the accumulator the previous one left.
VisitedInOrder(run) ==
    LET log == run.log
        max_len == Max(Len(run.naf_1), Len(run.naf_2))
        at(what, i) == {n \in 1 .. Len(log) : log[n].step = what /\ log[n].i = i}
    IN /\ \A n \in 1 .. Len(log) : log[n].i \in 0 .. max_len - 1
       /\ \A a, b \in 1 .. Len(log) :
             a < b => \/ log[a].i > log[b].i
                      \/ log[a].i = log[b].i /\ Rank(log[a].step) < Rank(log[b].step)
       /\ \A i \in 0 .. max_len - 1 :
             /\ Cardinality(at("naf_add_1", i))
                   = IF i < Len(run.naf_1) /\ run.naf_1[i + 1] # 0 THEN 1 ELSE 0
             /\ \A n \in at("naf_add_1", i) : log[n].digit = run.naf_1[i + 1]
             /\ Cardinality(at("naf_add_2", i))
                   = IF i < Len(run.naf_2) /\ run.naf_2[i + 1] # 0 THEN 1 ELSE 0
             /\ \A n \in at("naf_add_2", i) : log[n].digit = run.naf_2[i + 1]
             /\ Cardinality(at("double_in_place", i)) = IF i # 0 THEN 1 ELSE 0
       /\ \A n \in 1 .. Len(log) :
             /\ log[n].before = IF n = 1 THEN zero ELSE log[n - 1].after
             /\ log[n].step = "double_in_place" =>
                   log[n].after = double_in_place(log[n].before)
       /\ run.acc = IF log = << >> THEN zero ELSE log[Len(log)].after

\* The accumulator returned stands for the sum over i of
\* 2^i * (naf_1[i] * P + naf_2[i] * endo(P)).
AccumulatesSum(run, g) ==
    eq(run.acc, add_assign(SignedMul(g, NafValue(run.naf_1)),
                           SignedMul(endo(g), NafValue(run.naf_2))))

\* C22 as stated: positions are visited from max_len - 1 down to 0, at each
\* position sequence 1 is added first, then sequence 2, then the
\* accumulator is doubled except at position 0, so exactly max_len - 1
\* doublings are executed, and the final accumulator is the sum over i of
\* 2^i * (naf_1[i] * P + naf_2[i] * endo(P)).
C22_AsStated ==
    op = "mul" =>
        /\ VisitedInOrder(mulrun)
        /\ Doublings(mulrun.log) = Max(Len(mulrun.naf_1), Len(mulrun.naf_2)) - 1
        /\ AccumulatesSum(mulrun, pre)

\* C22, amended: the same order of steps and the same final accumulator;
\* exactly max_len - 1 doublings are executed when max_len is at least 1,
\* and when max_len is 0 (the scalar 0) no position is visited, nothing is
\* added or doubled and the accumulator returned is zero().
C22_AccumulationOrder ==
    op = "mul" =>
        LET max_len == Max(Len(mulrun.naf_1), Len(mulrun.naf_2))
        IN /\ VisitedInOrder(mulrun)
           /\ max_len >= 1 => Doublings(mulrun.log) = max_len - 1
           /\ max_len = 0 => mulrun.log = << >> /\ self = zero
           /\ AccumulatesSum(mulrun, pre)
           /\ self = mulrun.acc

\* C22 witness: a run in which one position adds from the first table,
\* then from the second and then doubles, on a point that is not the
\* identity.
C22_Witness ==
    /\ op = "mul"
    /\ ~is_zero(pre)
    /\ Len(mulrun.naf_1) >= 2 /\ Len(mulrun.naf_2) >= 2
    /\ \E n \in 1 .. Len(mulrun.log) - 2 :
          /\ mulrun.log[n].step = "naf_add_1"
          /\ mulrun.log[n + 1].step = "naf_add_2"
          /\ mulrun.log[n + 2].step = "double_in_place"
          /\ mulrun.log[n].i = mulrun.log[n + 2].i
    /\ Doublings(mulrun.log) = Max(Len(mulrun.naf_1), Len(mulrun.naf_2)) - 1

\* C23: precomputed tables.  T1 has exactly 8 entries with
\* T1[i] = (2i + 1) * P, T2[i] is the endomorphism image of T1[i], and for
\* a nonzero digit d the lookup table[|d| >> 1], negated when d < 0,
\* contributes exactly d * P (for T1) or d * endo(P) (for T2) to the
\* accumulator.
C23_Tables ==
    op = "mul" =>
        /\ Len(mulrun.t_1) = 8 /\ Len(mulrun.t_2) = 8
        /\ \A i \in 0 .. 7 :
              /\ eq(FromAffine(mulrun.t_1[i + 1]), mul_bits(pre, 2 * i + 1))
              /\ mulrun.t_2[i + 1] = glv_endomorphism(mulrun.t_1[i + 1])
        /\ \A n \in 1 .. Len(mulrun.log) :
              LET s == mulrun.log[n]
              IN /\ s.step = "naf_add_1" =>
                       /\ s.digit # 0
                       /\ eq(s.after, add_assign(s.before, SignedMul(pre, s.digit)))
                 /\ s.step = "naf_add_2" =>
                       /\ s.digit # 0
                       /\ eq(s.after, add_assign(s.before, SignedMul(endo(pre), s.digit)))

\* C23 witness: a point whose eight odd multiples are all different from
\* the identity, with a negative digit looked up in T1 and a digit larger
\* than one looked up in T2.
C23_Witness ==
    /\ op = "mul"
    /\ \A i \in 1 .. 8 : ~mulrun.t_1[i].infinity
    /\ \E n, m \in 1 .. Len(mulrun.log) :
          /\ mulrun.log[n].step = "naf_add_1" /\ mulrun.log[n].digit < -1
          /\ mulrun.log[m].step = "naf_add_2" /\ Abs(mulrun.log[m].digit) > 1
          /\ ~is_zero(mulrun.log[m].before)

-----------------------------------------------------------------------------
(* The recoding machine: to_wnaf run one loop iteration at a time on a     *)
(* scalar representation, and wnaf applied to a decomposition.             *)

InitWnaf ==
    /\ curve \in MulCurves
    /\ op = "new"
    /\ self = zero
    /\ pre = zero
    /\ other = zero
    /\ otherAff = AffineZero
    /\ Idle

\* to_wnaf is entered: naf = vec![] and e = e.to_repr().
ToWnaf ==
    /\ op = "new"
    /\ \E e \in 0 .. ScalarModulus - 1 :
          /\ op' = "to_wnaf"
          /\ recoded' = [input |-> e, e |-> e, naf |-> << >>, carried |-> FALSE]
          /\ UNCHANGED <<curve, self, pre, other, otherAff, eqres, v, vpre, panicked,
                         inversions, k, dec, inverted, serVars, circuitVars, memberVars,
                         mulrun, par, cudaVars, noop>>

\* One iteration of while !e.is_zero(); carried records an add_nocarry
\* whose sum did not fit the representation.
ToWnafIterate ==
    /\ op = "to_wnaf"
    /\ recoded.e # 0
    /\ recoded' = [recoded EXCEPT
                      !.naf = Append(@, Digit(recoded.e)),
                      !.e = Reduced(recoded.e) \div 2,
                      !.carried = @ \/ (/\ Digit(recoded.e) < 0
                                        /\ recoded.e - Digit(recoded.e) >= 2 ^ curve.reprbits)]
    /\ UNCHANGED <<curve, op, self, pre, other, otherAff, eqres, v, vpre, panicked,
                   inversions, k, dec, inverted, serVars, circuitVars, memberVars,
                   mulrun, par, cudaVars, noop>>

\* The loop condition fails and naf is returned.
ToWnafReturn ==
    /\ op = "to_wnaf"
    /\ recoded.e = 0
    /\ op' = "to_wnaf_returned"
    /\ UNCHANGED <<curve, self, pre, other, otherAff, eqres, v, vpre, panicked,
                   inversions, k, dec, inverted, serVars, circuitVars, memberVars,
                   mulrun, recoded, par, cudaVars, noop>>

\* wnaf on the decomposition of a scalar: both recodings, then the signs.
Wnaf ==
    /\ op = "new"
    /\ \E e \in 0 .. ScalarModulus - 1 :
          \E d \in decompose(e) :
             LET nafs == wnaf(d.k1, d.k2, d.s1, d.s2)
             IN /\ op' = "wnaf"
                /\ k' = e
                /\ dec' = d
                /\ recoded' = [wnaf_1 |-> to_wnaf(d.k1), wnaf_2 |-> to_wnaf(d.k2),
                               naf_1 |-> nafs[1], naf_2 |-> nafs[2]]
                /\ UNCHANGED <<curve, self, pre, other, otherAff, eqres, v, vpre, panicked,
                               inversions, inverted, serVars, circuitVars, memberVars,
                               mulrun, par, cudaVars, noop>>

NextWnaf == ToWnaf \/ ToWnafIterate \/ ToWnafReturn \/ Wnaf

SpecWnaf == InitWnaf /\ [][NextWnaf]_vars

\* A digit of a width-5 wNAF: zero, or odd and strictly between -16 and 16.
IsWnafDigit(d) == d = 0 \/ (d % 2 = 1 /\ -16 < d /\ d < 16)

\* C21: wNAF recoding is value-preserving.  For every scalar representation
\* e, to_wnaf(e) returns a least-significant-first digit sequence d with
\* the sum of d[i] * 2^i equal to e, every digit zero or an odd integer
\* strictly between -16 and 16, and the sequence empty exactly when e = 0;
\* throughout the loop the digits pushed and the running value add up to e.
C21_WnafValue ==
    /\ op \in {"to_wnaf", "to_wnaf_returned"} =>
          /\ NafValue(recoded.naf) + (2 ^ Len(recoded.naf)) * recoded.e = recoded.input
          /\ \A i \in 1 .. Len(recoded.naf) : IsWnafDigit(recoded.naf[i])
    /\ op = "to_wnaf_returned" =>
          /\ NafValue(recoded.naf) = recoded.input
          /\ recoded.naf = << >> <=> recoded.input = 0
          /\ recoded.naf = to_wnaf(recoded.input)

\* C21 witness: a recoding returned with a negative digit and a digit
\* larger than one, six digits or more.
C21_Witness ==
    /\ op = "to_wnaf_returned"
    /\ Len(recoded.naf) >= 6
    /\ \E i, j \in 1 .. Len(recoded.naf) : recoded.naf[i] < 0 /\ recoded.naf[j] > 1
    /\ NafValue(recoded.naf) = recoded.input

\* C28: the recoding loop terminates.  For every scalar representation e
\* the running value is zero after at most bitlength(e) + 1 iterations, the
\* addition made for a negative residue never exceeds the width of the
\* big integer for e below the scalar field modulus, and the last digit
\* pushed is nonzero and positive.
C28_WnafTerminates ==
    /\ op \in {"to_wnaf", "to_wnaf_returned"} =>
          /\ Len(recoded.naf) <= NumBits(recoded.input) + 1
          /\ recoded.e # 0 => Len(recoded.naf) < NumBits(recoded.input) + 1
          /\ ~recoded.carried
    /\ (op = "to_wnaf_returned" /\ recoded.input # 0) =>
          recoded.naf[Len(recoded.naf)] > 0

\* C28 witness: a recoding that took bitlength(e) + 1 iterations, the first
\* of them for a negative residue.
C28_Witness ==
    /\ op = "to_wnaf_returned"
    /\ Len(recoded.naf) = NumBits(recoded.input) + 1
    /\ recoded.naf[1] < 0
    /\ recoded.naf[Len(recoded.naf)] > 0

\* C29: table lookups are in bounds.  For every scalar and every digit
\* position, the index |d| >> 1 of a nonzero digit d of either signed
\* sequence is in 0 ..= 7, below the table length.
C29_LookupsInBounds ==
    op = "wnaf" =>
        /\ \A i \in 1 .. Len(recoded.naf_1) :
              recoded.naf_1[i] # 0 => (Abs(recoded.naf_1[i]) \div 2) \in 0 .. L - 1
        /\ \A i \in 1 .. Len(recoded.naf_2) :
              recoded.naf_2[i] # 0 => (Abs(recoded.naf_2[i]) \div 2) \in 0 .. L - 1
        /\ L = 8

\* C29 witness: signed sequences in which a digit selects the last table
\* entry and a negated digit selects another.
C29_Witness ==
    /\ op = "wnaf"
    /\ \E i \in 1 .. Len(recoded.naf_1) : Abs(recoded.naf_1[i]) \div 2 = L - 1
    /\ \E i \in 1 .. Len(recoded.naf_2) :
          recoded.naf_2[i] < 0 /\ recoded.naf_2[i] = -recoded.wnaf_2[i]

\* C24: sign application.  Every digit of the first sequence is negated
\* exactly when the first sign flag of the decomposition is true, every
\* digit of the second exactly when the second flag is false; the signed
\* sequences encode two terms with naf_1 + naf_2 * lambda congruent to the
\* scalar modulo the order of the scalar field.
C24_SignApplication ==
    op = "wnaf" =>
        /\ Len(recoded.naf_1) = Len(recoded.wnaf_1)
        /\ Len(recoded.naf_2) = Len(recoded.wnaf_2)
        /\ \A i \in 1 .. Len(recoded.naf_1) :
              recoded.naf_1[i] = IF dec.s1 THEN -recoded.wnaf_1[i] ELSE recoded.wnaf_1[i]
        /\ \A i \in 1 .. Len(recoded.naf_2) :
              recoded.naf_2[i] = IF dec.s2 THEN recoded.wnaf_2[i] ELSE -recoded.wnaf_2[i]
        /\ (NafValue(recoded.naf_1) + NafValue(recoded.naf_2) * curve.lambda
               + ScalarModulus * ScalarModulus) % ScalarModulus = k

\* C24 witness: a decomposition with the first flag true and the second
\* true, so that the first sequence is negated and the second is not.
C24_Witness ==
    /\ op = "wnaf"
    /\ dec.s1 /\ dec.s2
    /\ \E i \in 1 .. Len(recoded.naf_1) : recoded.naf_1[i] = -recoded.wnaf_1[i]
                                            /\ recoded.naf_1[i] # 0
    /\ \E i \in 1 .. Len(recoded.naf_2) : recoded.naf_2[i] = recoded.wnaf_2[i]
                                            /\ recoded.naf_2[i] # 0

-----------------------------------------------------------------------------
(* batch_normalization, parallel build: the final pass is run by one       *)
(* worker per element, each worker one statement at a time, interleaved.   *)

\* The slice as the second pass leaves it: z holds 1/z in every element
\* that is not normalized.
AfterSecondPass(s) ==
    LET first == FirstPass(s, 1, 1, << >>)
    IN SecondPass(s, Len(s), unwrap(FInverse(first.tmp)), first.prod, 1)

\* Faulty variant: the workers keep z2 in one shared slot.
ParStep_shared_z2(st, i) ==
    LET g == st.v[i]
    IN CASE st.pc[i] = "start" ->
              IF is_normalized(g) THEN [st EXCEPT !.pc[i] = "done"]
              ELSE [st EXCEPT !.z2[1] = FSquare(g.z), !.pc[i] = "x"]
         [] st.pc[i] = "x" ->
              [st EXCEPT !.v[i].x = FMul(g.x, st.z2[1]), !.pc[i] = "y"]
         [] st.pc[i] = "y" ->
              [st EXCEPT !.v[i].y = FMul(g.y, FMul(st.z2[1], g.z)), !.pc[i] = "z"]
         [] st.pc[i] = "z" ->
              [st EXCEPT !.v[i].z = 1, !.pc[i] = "done"]

\* The next statement of the closure run on element i: the filter and
\* z2 = g.z.square(), then g.x *= z2, then g.y *= z2 * g.z, then g.z = one.
ParStep(st, i) ==
    LET g == st.v[i]
    IN CASE st.pc[i] = "start" ->
              IF is_normalized(g) THEN [st EXCEPT !.pc[i] = "done"]
              ELSE [st EXCEPT !.z2[i] = FSquare(g.z), !.pc[i] = "x"]
         [] st.pc[i] = "x" ->
              [st EXCEPT !.v[i].x = FMul(g.x, st.z2[i]), !.pc[i] = "y"]
         [] st.pc[i] = "y" ->
              [st EXCEPT !.v[i].y = FMul(g.y, FMul(st.z2[i], g.z)), !.pc[i] = "z"]
         [] st.pc[i] = "z" ->
              [st EXCEPT !.v[i].z = 1, !.pc[i] = "done"]

ParPoints ==
    {zero, new(1, 1, 0)} \cup {Rep(q, c) : q \in OnCurve(0), c \in 1 .. MaxParZ}

ParSlices == UNION {[1 .. n -> ParPoints] : n \in 0 .. MaxParLen}

InitPar ==
    /\ curve = CurveA0
    /\ op = "new"
    /\ self = zero
    /\ pre = zero
    /\ other = zero
    /\ otherAff = AffineZero
    /\ Idle

\* batch_normalization up to the start of the parallel pass.
ParStart ==
    /\ op = "new"
    /\ \E s \in ParSlices :
          /\ op' = "par_iter_mut"
          /\ par' = [input |-> s,
                     second |-> AfterSecondPass(s),
                     v |-> AfterSecondPass(s),
                     pc |-> [i \in 1 .. Len(s) |-> "start"],
                     z2 |-> [i \in 1 .. Len(s) |-> 0],
                     foreign |-> FALSE,
                     interleaved |-> FALSE]
    /\ UNCHANGED <<curve, self, pre, other, otherAff, eqres, v, vpre, panicked,
                   inversions, k, dec, inverted, serVars, circuitVars, memberVars,
                   mulrun, recoded, cudaVars, noop>>

\* Some worker runs its next statement.  foreign records a write to an
\* element other than the worker's own, interleaved a statement run while
\* another worker is in the middle of its conversion.
ParWork ==
    /\ op = "par_iter_mut"
    /\ \E i \in 1 .. Len(par.v) :
          /\ par.pc[i] # "done"
          /\ LET st == ParStep(par, i)
             IN par' = [st EXCEPT
                           !.foreign = @ \/ \E j \in 1 .. Len(par.v) :
                                               j # i /\ st.v[j] # par.v[j],
                           !.interleaved = @ \/ \E j \in 1 .. Len(par.v) :
                                                   j # i /\ par.pc[j] \in {"x", "y", "z"}]
    /\ UNCHANGED <<curve, op, self, pre, other, otherAff, eqres, v, vpre, panicked,
                   inversions, k, dec, inverted, serVars, circuitVars, memberVars,
                   mulrun, recoded, cudaVars, noop>>

NextPar == ParStart \/ ParWork

SpecPar == InitPar /\ [][NextPar]_vars

\* C25: the final coordinate-conversion pass of batch_normalization is
\* order-independent.  When the per-point conversions are executed by
\* parallel workers in any order or interleaving, each conversion writes
\* only its own point, a point whose conversion is done has the value the
\* sequential pass gives it whatever the other workers have done, and when
\* all are done the slice is identical to that of the sequential pass.
C25_OrderIndependent ==
    op = "par_iter_mut" =>
        /\ ~par.foreign
        /\ \A i \in 1 .. Len(par.v) :
              /\ par.pc[i] = "start" => par.v[i] = par.second[i]
              /\ par.pc[i] = "done" => par.v[i] = Transform(par.second[i], TRUE)
        /\ (\A i \in 1 .. Len(par.v) : par.pc[i] = "done") =>
              /\ par.v = ThirdPass(par.second, TRUE)
              /\ par.v = batch_normalization(par.input).v

\* C25 witness: two points with different Z, neither normalized, converted
\* by two workers whose statements were interleaved.
C25_Witness ==
    /\ op = "par_iter_mut"
    /\ Len(par.v) >= 2
    /\ ~is_normalized(par.input[1]) /\ ~is_normalized(par.input[2])
    /\ par.input[1].z # par.input[2].z
    /\ par.interleaved
    /\ \A i \in 1 .. Len(par.v) : par.pc[i] = "done"
    /\ par.v # par.input

-----------------------------------------------------------------------------
(* The CUDA dispatch protocol: msm_cuda callers, the CUDA_DISPATCH queue    *)
(* and the worker thread cuda_thread.                                      *)

Callers == 1 .. NumCallers

\* ErrorCode::NoDevice, as msm_cuda returns it.
NoDevice == [kind |-> "NoDevice"]

\* CudaRequest of caller c: its bases and scalars (named by the caller) and
\* the sender of the caller's own bounded(1) response channel.
CudaRequest(c) == [id |-> c, response |-> c]

\* handle_cuda_request: the sum for the request, or the error of a failed
\* CUDA call.
handle_cuda_request(request, ok) ==
    [kind |-> IF ok THEN "Ok" ELSE "Err", of |-> request.id]

\* Faulty variant: the worker takes the request enqueued last.
recv_last(q) ==
    [request |-> q[Len(q)], rest |-> SubSeq(q, 1, Len(q) - 1)]

\* Receiver::recv on a queue that is not empty: the oldest request.
recv(q) == [request |-> Head(q), rest |-> Tail(q)]

InitCuda ==
    /\ curve = CurveA0
    /\ op = "new"
    /\ self = zero /\ pre = zero /\ other = zero /\ otherAff = AffineZero
    /\ eqres = FALSE /\ v = << >> /\ vpre = << >> /\ panicked = FALSE
    /\ inversions = 0 /\ k = 0 /\ dec = << >> /\ inverted = << >>
    /\ bytes = << >> /\ readres = << >> /\ circuit = << >> /\ gadget = << >>
    /\ string = << >> /\ member = << >> /\ mulrun = << >> /\ recoded = << >>
    /\ par = << >> /\ noop = << >>
    /\ callers = [c \in Callers |-> [pc |-> "idle", result |-> << >>]]
    /\ queue = << >>
    /\ worker = [pc |-> "unspawned", request |-> << >>, receiver |-> "alive"]
    /\ responses = [c \in Callers |-> [msgs |-> << >>, sender |-> "none"]]
    /\ history = [enqueued |-> << >>, taken |-> << >>, answered |-> << >>]

notCudaVars ==
    <<curve, op, self, pre, other, otherAff, eqres, v, vpre, panicked, inversions,
      k, dec, inverted, serVars, circuitVars, memberVars, mulrun, recoded, par, noop>>

\* msm_cuda with fewer than 4 scalars: the sum is computed by the caller.
CallLocal(c) ==
    /\ callers[c].pc = "idle"
    /\ callers' = [callers EXCEPT ![c] = [pc |-> "returned",
                                          result |-> [kind |-> "Ok", of |-> c]]]
    /\ UNCHANGED <<queue, worker, responses, history, notCudaVars>>

\* msm_cuda with at least 4 scalars, up to the use of CUDA_DISPATCH: the
\* response channel is created and the first use of CUDA_DISPATCH makes the
\* queue and spawns the worker.
Call(c) ==
    /\ callers[c].pc = "idle"
    /\ callers' = [callers EXCEPT ![c].pc = "send"]
    /\ responses' = [responses EXCEPT ![c] = [msgs |-> << >>, sender |-> "alive"]]
    /\ worker' = IF worker.pc = "unspawned" THEN [worker EXCEPT !.pc = "init"] ELSE worker
    /\ UNCHANGED <<queue, history, notCudaVars>>

\* CUDA_DISPATCH.send(request): an error once the receiver is dropped (the
\* request comes back in the error and is dropped), else the request is
\* enqueued when the queue has room; the caller waits while it is full.
Send(c) ==
    /\ callers[c].pc = "send"
    /\ IF worker.receiver = "dropped"
       THEN /\ callers' = [callers EXCEPT ![c] = [pc |-> "returned", result |-> NoDevice]]
            /\ responses' = [responses EXCEPT ![c].sender = "dropped"]
            /\ UNCHANGED <<queue, history>>
       ELSE /\ Len(queue) < QueueCap
            /\ queue' = Append(queue, CudaRequest(c))
            /\ callers' = [callers EXCEPT ![c].pc = "recv"]
            /\ history' = [history EXCEPT !.enqueued = Append(@, c)]
            /\ UNCHANGED responses
    /\ UNCHANGED <<worker, notCudaVars>>

\* receiver.recv() of the caller: the response when there is one, an error
\* (NoDevice) when the channel is empty and its sender is dropped; the
\* caller waits otherwise.
Recv(c) ==
    /\ callers[c].pc = "recv"
    /\ \/ /\ responses[c].msgs # << >>
          /\ callers' = [callers EXCEPT ![c] = [pc |-> "returned",
                                                result |-> Head(responses[c].msgs)]]
          /\ responses' = [responses EXCEPT ![c].msgs = Tail(@)]
       \/ /\ responses[c].msgs = << >>
          /\ responses[c].sender = "dropped"
          /\ callers' = [callers EXCEPT ![c] = [pc |-> "returned", result |-> NoDevice]]
          /\ UNCHANGED responses
    /\ UNCHANGED <<queue, worker, history, notCudaVars>>

\* cuda_thread finds a device and reaches its loop.
WorkerReady ==
    /\ worker.pc = "init"
    /\ worker' = [worker EXCEPT !.pc = "ready"]
    /\ UNCHANGED <<callers, queue, responses, history, notCudaVars>>

\* cuda_thread returns (no device) or panics in an unwrap() of its
\* initialisation: its receiver is dropped.  The sender in CUDA_DISPATCH is
\* never dropped, so the queue is not freed; whether the requests it holds
\* are dropped with the receiver is up to the channel implementation.
WorkerExit ==
    /\ worker.pc = "init"
    /\ worker' = [worker EXCEPT !.pc = "exited", !.receiver = "dropped"]
    /\ \/ /\ queue' = << >>
          /\ responses' = [c \in Callers |->
                              IF \E i \in 1 .. Len(queue) : queue[i].response = c
                              THEN [responses[c] EXCEPT !.sender = "dropped"]
                              ELSE responses[c]]
       \/ UNCHANGED <<queue, responses>>
    /\ UNCHANGED <<callers, history, notCudaVars>>

\* while let Ok(request) = input.recv().
WorkerTake ==
    /\ worker.pc = "ready"
    /\ queue # << >>
    /\ worker' = [worker EXCEPT !.pc = "handling", !.request = <<recv(queue).request>>]
    /\ queue' = recv(queue).rest
    /\ history' = [history EXCEPT !.taken = Append(@, recv(queue).request.id)]
    /\ UNCHANGED <<callers, responses, notCudaVars>>

\* handle_cuda_request and request.response.send(out).ok(); the request is
\* dropped at the end of the iteration.
WorkerAnswer ==
    /\ worker.pc = "handling"
    /\ \E ok \in BOOLEAN :
          LET request == worker.request[1]
              out == handle_cuda_request(request, ok)
          IN /\ responses' = [responses EXCEPT
                                 ![request.response] = [msgs |-> Append(@.msgs, out),
                                                        sender |-> "dropped"]]
             /\ history' = [history EXCEPT
                               !.answered = Append(@, [of |-> request.id,
                                                       on |-> request.response])]
    /\ worker' = [worker EXCEPT !.pc = "ready", !.request = << >>]
    /\ UNCHANGED <<callers, queue, notCudaVars>>

NextCuda ==
    \/ \E c \in Callers : CallLocal(c) \/ Call(c) \/ Send(c) \/ Recv(c)
    \/ WorkerReady
    \/ WorkerExit
    \/ WorkerTake
    \/ WorkerAnswer

SpecCuda == InitCuda /\ [][NextCuda]_vars

\* C26: the dispatch protocol.  With any number of threads calling msm_cuda
\* concurrently, the single worker takes requests from the shared bounded
\* queue one at a time in the order they were enqueued, every request the
\* worker handles produces exactly one response, sent on that request's own
\* response channel, and a caller never receives the result of another
\* caller's request.
C26_Dispatch ==
    /\ Len(queue) <= QueueCap
    /\ Len(history.taken) <= Len(history.enqueued)
    /\ history.taken = SubSeq(history.enqueued, 1, Len(history.taken))
    /\ SubSeq(history.enqueued, Len(history.taken) + 1, Len(history.enqueued))
          = [i \in 1 .. Len(queue) |-> queue[i].id]
       \/ worker.pc = "exited"
    /\ worker.pc = "handling" <=> worker.request # << >>
    /\ Len(history.taken)
          = Len(history.answered) + (IF worker.pc = "handling" THEN 1 ELSE 0)
    /\ worker.pc = "handling" =>
          worker.request[1].id = history.taken[Len(history.taken)]
    /\ \A n \in 1 .. Len(history.answered) :
          /\ history.answered[n].of = history.taken[n]
          /\ history.answered[n].on = history.taken[n]
    /\ \A c \in Callers :
          /\ Len(responses[c].msgs) <= 1
          /\ \A n \in 1 .. Len(responses[c].msgs) : responses[c].msgs[n].of = c
          /\ (callers[c].pc = "returned" /\ callers[c].result # NoDevice) =>
                callers[c].result.of = c
          /\ Cardinality({n \in 1 .. Len(history.answered) :
                             history.answered[n].of = c}) <= 1

\* C26 witness: every caller has its own result back from the worker, the
\* requests having been enqueued in another order than that of the callers.
C26_Witness ==
    /\ \A c \in Callers : callers[c].pc = "returned" /\ callers[c].result # NoDevice
    /\ Len(history.answered) = NumCallers
    /\ history.enqueued[1] # 1
    /\ history.taken = history.enqueued

\* C27 as stated: every call of msm_cuda with at least 4 scalars returns,
\* with the worker's result or with NoDevice; once the worker has exited
\* without answering, a caller is never left blocked on the send or on the
\* receive: the send fails, and the receive finds a response or a
\* disconnected response channel, also for a request enqueued before the
\* worker dropped its receiver.
C27_AsStated ==
    \A c \in Callers :
        worker.pc = "exited" =>
            /\ callers[c].pc = "send" => worker.receiver = "dropped"
            /\ callers[c].pc = "recv" =>
                  responses[c].msgs # << >> \/ responses[c].sender = "dropped"

-----------------------------------------------------------------------------
(* NoopProgram::execute: the record at a position of the local data is     *)
(* selected and its program id is checked before the proof is produced.    *)

\* C::NUM_INPUT_RECORDS of the testnet2 components.
NUM_INPUT_RECORDS == 2

\* Program ids: that of the noop program (self.id) and another one.
ProgramIds == {"noop", "other"}

Records == [death_program_id : ProgramIds, birth_program_id : ProgramIds]

RecordLists == UNION {[1 .. n -> Records] : n \in 0 .. MaxRecords}

\* execute up to the proof: the assertion on the position, the record
\* selected (list and index, from 0), the field compared with self.id and
\* the outcome.
execute(id, old_records, new_records, position) ==
    IF ~(position < Len(old_records) + Len(new_records))
    THEN [outcome |-> "abort_position", from |-> "none", index |-> 0, field |-> "none"]
    ELSE LET from_old == position < Len(old_records)
             index == IF from_old THEN position ELSE position - Len(old_records)
             record == IF from_old THEN old_records[index + 1] ELSE new_records[index + 1]
             death == position < NUM_INPUT_RECORDS
             checked == IF death THEN record.death_program_id
                        ELSE record.birth_program_id
         IN [outcome |-> IF id = checked THEN "proof" ELSE "abort_program_id",
             from |-> IF from_old THEN "old_records" ELSE "new_records",
             index |-> index,
             field |-> IF death THEN "death_program_id" ELSE "birth_program_id"]

InitNoop ==
    /\ curve = CurveA0
    /\ op = "new"
    /\ self = zero
    /\ pre = zero
    /\ other = zero
    /\ otherAff = AffineZero
    /\ Idle

Execute ==
    /\ op = "new"
    /\ \E old_records \in RecordLists, new_records \in RecordLists,
          position \in 0 .. 2 * MaxRecords :
          /\ op' = "execute"
          /\ noop' = [old_records |-> old_records,
                      new_records |-> new_records,
                      position |-> position,
                      run |-> execute("noop", old_records, new_records, position)]
    /\ UNCHANGED <<curve, self, pre, other, otherAff, eqres, v, vpre, panicked,
                   inversions, k, dec, inverted, serVars, circuitVars, memberVars,
                   mulrun, recoded, par, cudaVars>>

NextNoop == Execute

SpecNoop == InitNoop /\ [][NextNoop]_vars

\* C30 as stated: execute checks the program id against the right field of
\* the record it selected.  For every position below
\* old_records.len() + new_records.len() the record is taken from
\* old_records and compared with its death_program_id exactly when it is an
\* old record, and taken from new_records and compared with its
\* birth_program_id otherwise; a position at or beyond the total number of
\* records aborts before any proof is produced.
C30_AsStated ==
    op = "execute" =>
        LET total == Len(noop.old_records) + Len(noop.new_records)
        IN /\ noop.position >= total => noop.run.outcome = "abort_position"
           /\ noop.position < total =>
                 \/ /\ noop.position < Len(noop.old_records)
                    /\ noop.run.from = "old_records"
                    /\ noop.run.field = "death_program_id"
                 \/ /\ noop.position >= Len(noop.old_records)
                    /\ noop.run.from = "new_records"
                    /\ noop.run.field = "birth_program_id"

====
